---- MODULE Spec2Model ----
(***************************************************************************)
(* rlox: scanner (src/tokenizer.rs), single-pass Pratt parser/compiler     *)
(* (src/parser.rs, src/compiler.rs, src/chunk.rs) and stack VM (src/vm.rs). *)
(*                                                                         *)
(* Source text is a TLA+ string; byte i (0-based) of a source s is         *)
(* SubSeq(s, i+1, i+1).  Code positions, stack slots and pool indices are  *)
(* 0-based as in the Rust code; element k of a Vec v is v[k+1].            *)
(***************************************************************************)
EXTENDS Integers, Sequences, FiniteSets, TLC

(***************************************************************************)
(* Bytes of the source                                                     *)
(***************************************************************************)
\* Option<u8>::None of peek_byte / take_byte / checkpoint
NoByte == "<none>"

Digits == {"0", "1", "2", "3", "4", "5", "6", "7", "8", "9"}

Letters ==
  {"a", "b", "c", "d", "e", "f", "g", "h", "i", "j", "k", "l", "m",
   "n", "o", "p", "q", "r", "s", "t", "u", "v", "w", "x", "y", "z",
   "A", "B", "C", "D", "E", "F", "G", "H", "I", "J", "K", "L", "M",
   "N", "O", "P", "Q", "R", "S", "T", "U", "V", "W", "X", "Y", "Z"}

is_ascii_digit(b) == b \in Digits

is_ascii_whitespace(b) == b \in {" ", "\t", "\n", "\f", "\r"}

is_newline(b) == b = "\n"

is_alphabetic_or_underscore(b) == b \in Letters \/ b = "_"

(***************************************************************************)
(* Tokens and the scanner.  A Tokenizer is the record                      *)
(* [source, checkpoint, current, line]; every operation returns the new    *)
(* tokenizer, together with its result where it has one.                   *)
(***************************************************************************)
Token_new(kind, source, source_offset, line) ==
  [kind |-> kind, source |-> source, offset |-> source_offset, line |-> line]

\* Option<Token>::None
NoToken == [kind |-> "<none>", source |-> "", offset |-> 0, line |-> 0]

Tokenizer_new(source) ==
  [source |-> source, checkpoint |-> 0, current |-> 0, line |-> 0]

\* &source[from..to]
Slice(source, from, to) == SubSeq(source, from + 1, to)

advance_byte(tz) == [tz EXCEPT !.current = @ + 1]

advance_bytes(tz, amount) == [tz EXCEPT !.current = @ + amount]

advance_line(tz) == [tz EXCEPT !.line = @ + 1]

peek_byte(tz) ==
  IF tz.current >= Len(tz.source) THEN NoByte
  ELSE Slice(tz.source, tz.current, tz.current + 1)

\* take_byte advances current even when nothing is left to take
take_byte(tz) ==
  [tz |-> advance_byte(tz),
   byte |-> IF tz.current + 1 > Len(tz.source) THEN NoByte
            ELSE Slice(tz.source, tz.current, tz.current + 1)]

RECURSIVE take_whitespace(_)
take_whitespace(tz) ==
  LET it == peek_byte(tz) IN
  IF it # NoByte /\ is_ascii_whitespace(it)
  THEN take_whitespace(advance_byte(IF is_newline(it) THEN advance_line(tz) ELSE tz))
  ELSE tz

RECURSIVE take_comment(_)
take_comment(tz) ==
  LET t == take_byte(tz) IN
  IF t.byte = NoByte \/ t.byte = "\n" THEN t.tz ELSE take_comment(t.tz)

\* Option<&str>: "<none>" when fewer than amount bytes are left
peek_bytes(tz, amount) ==
  IF tz.current + amount > Len(tz.source) THEN NoByte
  ELSE Slice(tz.source, tz.current, tz.current + amount)

checkpoint(tz) == [tz EXCEPT !.checkpoint = tz.current]

\* a match that looks at no boundary
match_bytes_prefix(tz, what) == peek_bytes(tz, Len(what)) = what

match_bytes(tz, what) ==
  LET is_match == peek_bytes(tz, Len(what)) = what
      at == tz.current + Len(what)
      is_exact ==
        IF at < Len(tz.source)
        THEN LET it == Slice(tz.source, at, at + 1)
             IN ~(is_alphabetic_or_underscore(it) \/ is_ascii_digit(it))
        ELSE TRUE
  IN is_match /\ is_exact

\* a token that records the position after it as its offset
create_token_at_current(tz, kind) ==
  Token_new(kind, Slice(tz.source, tz.checkpoint, tz.current), tz.current, tz.line)

create_token(tz, kind) ==
  Token_new(kind, Slice(tz.source, tz.checkpoint, tz.current), tz.checkpoint, tz.line)

make_token_with_length(tz, kind, length) ==
  LET t == advance_bytes(checkpoint(tz), length)
  IN [tz |-> t, tok |-> create_token(t, kind)]

RECURSIVE make_string_loop(_)
make_string_loop(tz) ==
  LET t == take_byte(tz) IN
  IF t.byte = NoByte THEN [tz |-> t.tz, tok |-> NoToken]
  ELSE IF t.byte = "\"" THEN [tz |-> t.tz, tok |-> create_token(t.tz, "String")]
  ELSE make_string_loop(t.tz)

\* a string that the end of the source closes
make_string_open(tz) ==
  LET t == advance_bytes(checkpoint(tz), Len(tz.source) - tz.current)
  IN [tz |-> t, tok |-> create_token(t, "String")]

make_string(tz) == make_string_loop(advance_byte(checkpoint(tz)))

RECURSIVE make_number_loop(_)
make_number_loop(tz) ==
  LET it == peek_byte(tz) IN
  IF it # NoByte /\ is_ascii_digit(it) THEN make_number_loop(advance_byte(tz)) ELSE tz

make_number(tz) ==
  LET t == make_number_loop(checkpoint(tz))
  IN [tz |-> t, tok |-> create_token(t, "Number")]

RECURSIVE make_identifier_loop(_)
make_identifier_loop(tz) ==
  LET it == peek_byte(tz) IN
  IF it # NoByte /\ (is_alphabetic_or_underscore(it) \/ is_ascii_digit(it))
  THEN make_identifier_loop(advance_byte(tz))
  ELSE tz

make_identifier(tz) ==
  LET t == make_identifier_loop(checkpoint(tz))
  IN [tz |-> t, tok |-> create_token(t, "Identifier")]

\* the reserved words in the order Tokenizer::token tries them
Keywords ==
  << <<"and", "And">>, <<"class", "Class">>, <<"else", "Else">>, <<"if", "If">>,
     <<"nil", "Nil">>, <<"or", "Or">>, <<"print", "Print">>, <<"return", "Return">>,
     <<"super", "Super">>, <<"var", "Var">>, <<"while", "While">>, <<"false", "False">>,
     <<"for", "For">>, <<"fun", "Fun">>, <<"this", "This">>, <<"true", "True">> >>

\* index of the first reserved word that match_bytes accepts, 0 when none does
RECURSIVE first_keyword(_, _)
first_keyword(tz, k) ==
  IF k > Len(Keywords) THEN 0
  ELSE IF match_bytes(tz, Keywords[k][1]) THEN k
  ELSE first_keyword(tz, k + 1)

\* Tokenizer::token, which is Iterator::next
RECURSIVE token(_)
token(tz) ==
  LET it == peek_byte(tz)
      two == peek_bytes(tz, 2)
      kw == first_keyword(tz, 1)
  IN
  IF it = NoByte THEN [tz |-> tz, tok |-> NoToken]
  ELSE IF is_ascii_whitespace(it) THEN token(take_whitespace(tz))
  ELSE IF it = "(" THEN make_token_with_length(tz, "LeftParen", 1)
  ELSE IF it = ")" THEN make_token_with_length(tz, "RightParen", 1)
  ELSE IF it = "{" THEN make_token_with_length(tz, "LeftBrace", 1)
  ELSE IF it = "}" THEN make_token_with_length(tz, "RightBrace", 1)
  ELSE IF it = ";" THEN make_token_with_length(tz, "Semicolon", 1)
  ELSE IF it = "," THEN make_token_with_length(tz, "Comma", 1)
  ELSE IF it = "." THEN make_token_with_length(tz, "Dot", 1)
  ELSE IF it = "-" THEN make_token_with_length(tz, "Minus", 1)
  ELSE IF it = "+" THEN make_token_with_length(tz, "Plus", 1)
  ELSE IF it = "*" THEN make_token_with_length(tz, "Star", 1)
  ELSE IF it = "/" THEN
    IF two = "//" THEN token(take_comment(tz))
    ELSE make_token_with_length(tz, "Slash", 1)
  ELSE IF it = "!" THEN
    IF two = "!=" THEN make_token_with_length(tz, "BangEqual", 2)
    ELSE make_token_with_length(tz, "Bang", 1)
  ELSE IF it = "=" THEN
    IF two = "==" THEN make_token_with_length(tz, "EqualEqual", 2)
    ELSE make_token_with_length(tz, "Equal", 1)
  ELSE IF it = "<" THEN
    IF two = "<=" THEN make_token_with_length(tz, "LessEqual", 2)
    ELSE make_token_with_length(tz, "Less", 1)
  ELSE IF it = ">" THEN
    IF two = ">=" THEN make_token_with_length(tz, "GreaterEqual", 2)
    ELSE make_token_with_length(tz, "Greater", 1)
  ELSE IF it = "\"" THEN make_string(tz)
  ELSE IF is_ascii_digit(it) THEN make_number(tz)
  ELSE IF kw # 0 THEN make_token_with_length(tz, Keywords[kw][2], Len(Keywords[kw][1]))
  ELSE IF is_alphabetic_or_underscore(it) THEN make_identifier(tz)
  ELSE [tz |-> tz, tok |-> NoToken]

(***************************************************************************)
(* Results.  Every InterpretError (src/vm.rs) and the Ok of a Result is a  *)
(* record [err, reason]; a Rust panic is the pseudo-error Panic, which no   *)
(* caller can drop.                                                        *)
(***************************************************************************)
OkR == [err |-> "Ok", reason |-> ""]

CompileError(reason) == [err |-> "CompileError", reason |-> reason]

RuntimeError == [err |-> "RuntimeError", reason |-> ""]

StackUnderflowError == [err |-> "StackUnderflowError", reason |-> ""]

RuntimeErrorWithReason(reason) == [err |-> "RuntimeErrorWithReason", reason |-> reason]

JumpTooFar == [err |-> "JumpTooFar", reason |-> ""]

Panic(message) == [err |-> "panic", reason |-> message]

IsOk(r) == r.err = "Ok"

IsPanic(r) == r.err = "panic"

\* Result not yet produced
Pending == [err |-> "<pending>", reason |-> ""]

(***************************************************************************)
(* Values (src/opcode.rs).  An f64 is modelled as an exact rational n/d in *)
(* lowest terms with d > 0; d = 0 encodes +inf (n = 1), -inf (n = -1) and  *)
(* NaN (n = 0).  The sign of zero is not modelled.                         *)
(***************************************************************************)
Abs(i) == IF i < 0 THEN -i ELSE i

Sign(i) == IF i < 0 THEN -1 ELSE IF i > 0 THEN 1 ELSE 0

RECURSIVE GCD(_, _)
GCD(a, b) == IF b = 0 THEN a ELSE GCD(b, a % b)

F64(n, d) ==
  IF d = 0 THEN [n |-> Sign(n), d |-> 0]
  ELSE LET g == GCD(Abs(n), Abs(d))
       IN [n |-> (Sign(d) * n) \div g, d |-> Abs(d) \div g]

NaN == [n |-> 0, d |-> 0]

is_nan(x) == x.n = 0 /\ x.d = 0

is_infinite(x) == x.n # 0 /\ x.d = 0

is_zero(x) == x.n = 0 /\ x.d # 0

f64_neg(x) == [x EXCEPT !.n = -x.n]

f64_add(a, b) ==
  IF is_nan(a) \/ is_nan(b) THEN NaN
  ELSE IF is_infinite(a) /\ is_infinite(b) THEN (IF a.n = b.n THEN a ELSE NaN)
  ELSE IF is_infinite(a) THEN a
  ELSE IF is_infinite(b) THEN b
  ELSE F64(a.n * b.d + b.n * a.d, a.d * b.d)

f64_sub(a, b) == f64_add(a, f64_neg(b))

f64_mul(a, b) ==
  IF is_nan(a) \/ is_nan(b) THEN NaN
  ELSE IF is_infinite(a) \/ is_infinite(b)
       THEN (IF is_zero(a) \/ is_zero(b) THEN NaN ELSE F64(Sign(a.n) * Sign(b.n), 0))
  ELSE F64(a.n * b.n, a.d * b.d)

f64_div(a, b) ==
  IF is_nan(a) \/ is_nan(b) THEN NaN
  ELSE IF is_infinite(a)
       THEN (IF is_infinite(b) THEN NaN
             ELSE F64(Sign(a.n) * (IF b.n < 0 THEN -1 ELSE 1), 0))
  ELSE IF is_infinite(b) THEN F64(0, 1)
  ELSE IF is_zero(b) THEN (IF is_zero(a) THEN NaN ELSE F64(Sign(a.n), 0))
  ELSE F64(a.n * b.d, a.d * b.n)

f64_gt(a, b) ==
  IF is_nan(a) \/ is_nan(b) THEN FALSE
  ELSE IF is_infinite(a) THEN a.n = 1 /\ b # a
  ELSE IF is_infinite(b) THEN b.n = -1
  ELSE a.n * b.d > b.n * a.d

f64_lt(a, b) == f64_gt(b, a)

f64_eq(a, b) == ~is_nan(a) /\ ~is_nan(b) /\ a = b

Number(x) == [t |-> "Number", n |-> x.n, d |-> x.d]

NumberOf(i) == Number(F64(i, 1))

as_number(v) == [n |-> v.n, d |-> v.d]

Bool(b) == [t |-> "Bool", b |-> b]

Nil == [t |-> "Nil"]

\* Value::Object(Rc<Obj>): the Rc is the address of the Obj in the heap
Object(ptr) == [t |-> "Object", ptr |-> ptr]

\* Obj::String { str }
ObjString(str) == [str |-> str]

is_number(v) == v.t = "Number"

is_bool(v) == v.t = "Bool"

is_nil(v) == v.t = "Nil"

\* Value::is_string: the only Obj variant is String
is_string(v) == v.t = "Object"

\* truthiness as the specification states it: Nil is false, a Bool is itself,
\* a Number is true iff non-zero, an Object is true
Truthy(v) ==
  IF v.t = "Nil" THEN FALSE
  ELSE IF v.t = "Bool" THEN v.b
  ELSE IF v.t = "Number" THEN ~is_zero(as_number(v))
  ELSE TRUE

is_truthy(v) ==
  IF v.t = "Nil" THEN FALSE
  ELSE IF v.t = "Bool" THEN v.b
  ELSE IF v.t = "Number" THEN ~is_zero(as_number(v))
  ELSE FALSE

\* #[derive(PartialEq)] of Value; Rc<Obj> compares the objects it points to
value_eq(objects, l, r) ==
  IF l.t # r.t THEN FALSE
  ELSE IF l.t = "Number" THEN f64_eq(as_number(l), as_number(r))
  ELSE IF l.t = "Bool" THEN l.b = r.b
  ELSE IF l.t = "Object" THEN objects[l.ptr + 1] = objects[r.ptr + 1]
  ELSE TRUE

\* Returned::from(Value): an owned copy, the object cloned out of the heap
Returned_from(objects, value) ==
  IF value.t = "Object" THEN [t |-> "Object", str |-> objects[value.ptr + 1].str]
  ELSE value

(***************************************************************************)
(* OpCode (src/opcode.rs): #[repr(u8)], numbered in declaration order,     *)
(* Return last.                                                            *)
(***************************************************************************)
OpCode ==
  [Constant |-> 0, Nil |-> 1, True |-> 2, False |-> 3, String |-> 4,
   Equal |-> 5, Greater |-> 6, Less |-> 7, Not |-> 8,
   Add |-> 9, Subtract |-> 10, Multiply |-> 11, Divide |-> 12, Negate |-> 13,
   Pop |-> 15,
   DefineGlobal |-> 16, GetGlobal |-> 17, SetGlobal |-> 18,
   GetLocal |-> 19, SetLocal |-> 20,
   JumpIfFalse |-> 21, JumpIfTrue |-> 22, Jump |-> 23, Loop |-> 24,
   Return |-> 25] @@ ("Print" :> 14)

\* OpCode::try_from(byte)
OpCode_try_from(byte) == byte <= OpCode.Return

U8_MAX == 255

U16_MAX == 65535

(***************************************************************************)
(* Chunk (src/chunk.rs): [code, constants, strings, lines]                 *)
(***************************************************************************)
Chunk_new == [code |-> <<>>, constants |-> <<>>, strings |-> <<>>, lines |-> <<>>]

\* Vec::insert(index, element)
Lines_insert(lines, index, element) ==
  SubSeq(lines, 1, index) \o <<element>> \o SubSeq(lines, index + 1, Len(lines))

\* a write_byte that enters the line at the head of the table
write_byte_line_first(chunk, byte, line) ==
  [chunk EXCEPT !.code = Append(@, byte), !.lines = Lines_insert(@, 0, line)]

write_byte(chunk, byte, line) ==
  LET at == Len(chunk.code)
  IN [chunk EXCEPT !.code = Append(@, byte), !.lines = Lines_insert(@, at, line)]

write_code(chunk, op_code, line) == write_byte(chunk, op_code, line)

\* a forward distance counted from the opcode of the jump
Jump_forward_from_opcode(from, to) ==
  IF to - from - 1 > U16_MAX THEN [r |-> JumpTooFar, distance |-> 0]
  ELSE [r |-> OkR, distance |-> to - from - 1]

\* Jump::forward / Jump::backward: [r, distance]
Jump_forward(from, to) ==
  LET distance == to - from - 2
  IN IF distance > U16_MAX THEN [r |-> JumpTooFar, distance |-> 0]
     ELSE [r |-> OkR, distance |-> distance]

\* a backward distance that ends at the opcode of the Loop
Jump_backward_to_opcode(from, to) ==
  IF from - to > U16_MAX THEN [r |-> JumpTooFar, distance |-> 0]
  ELSE [r |-> OkR, distance |-> from - to]

Jump_backward(from, to) ==
  LET distance == from + 2 + 1 - to
  IN IF distance > U16_MAX THEN [r |-> JumpTooFar, distance |-> 0]
     ELSE [r |-> OkR, distance |-> distance]

\* Jump::to_bytes: <<higher, lower>>
to_bytes(distance) == <<(distance \div 256) % 256, distance % 256>>

Jump_from_bytes(higher, lower) == higher * 256 + lower

\* [chunk, at]: the address to patch
write_jump(chunk, op_code, line) ==
  LET c == write_byte(write_byte(write_byte(chunk, op_code, line), to_bytes(0)[1], line),
                      to_bytes(0)[2], line)
  IN [chunk |-> c, at |-> Len(c.code) - 2]

Codes_patch(code, at, byte) == [code EXCEPT ![at + 1] = byte]

\* [chunk, r]
patch_jump(chunk, at) ==
  LET j == Jump_forward(at, Len(chunk.code))
  IN IF ~IsOk(j.r) THEN [chunk |-> chunk, r |-> j.r]
     ELSE [chunk |-> [chunk EXCEPT !.code =
                        Codes_patch(Codes_patch(@, at, to_bytes(j.distance)[1]),
                                    at + 1, to_bytes(j.distance)[2])],
           r |-> OkR]

write_loop(chunk, to, line) ==
  LET j == Jump_backward(Len(chunk.code), to)
  IN IF ~IsOk(j.r) THEN [chunk |-> chunk, r |-> j.r]
     ELSE [chunk |-> write_byte(write_byte(write_byte(chunk, OpCode.Loop, line),
                                           to_bytes(j.distance)[1], line),
                                to_bytes(j.distance)[2], line),
           r |-> OkR]

\* an instruction whose operand is the index of a pool entry just added, or a
\* local's index; Byte::try_from(index).expect(..) panics past 255
write_indexed(chunk, op_code, index, line, message) ==
  IF index > U8_MAX THEN [chunk |-> chunk, r |-> Panic(message)]
  ELSE [chunk |-> write_byte(write_code(chunk, op_code, line), index, line), r |-> OkR]

write_constant(chunk, value, line) ==
  LET c == [chunk EXCEPT !.constants = Append(@, value)]
  IN write_indexed(c, OpCode.Constant, Len(c.constants) - 1, line,
                   "Constant added at index out of range for byte")

\* a text the pool holds is not stored again
Strings_add_once(chunk, str) ==
  IF \E i \in DOMAIN chunk.strings : chunk.strings[i] = str THEN chunk
  ELSE [chunk EXCEPT !.strings = Append(@, str)]

Strings_add(chunk, str) == [chunk EXCEPT !.strings = Append(@, str)]

write_define_global_var(chunk, str, line) ==
  LET c == Strings_add(chunk, str)
  IN write_indexed(c, OpCode.DefineGlobal, Len(c.strings) - 1, line,
                   "Global variable name added at index out of range for byte")

write_set_global_var(chunk, str, line) ==
  LET c == Strings_add(chunk, str)
  IN write_indexed(c, OpCode.SetGlobal, Len(c.strings) - 1, line,
                   "Global variable name added at index out of range for byte")

write_get_global_var(chunk, str, line) ==
  LET c == Strings_add(chunk, str)
  IN write_indexed(c, OpCode.GetGlobal, Len(c.strings) - 1, line,
                   "Global variable name added at index out of range for byte")

write_set_local_var(chunk, locals_index, line) ==
  write_indexed(chunk, OpCode.SetLocal, locals_index, line,
                "Local variable name added at index out of range for byte")

write_get_local_var(chunk, locals_index, line) ==
  write_indexed(chunk, OpCode.GetLocal, locals_index, line,
                "Local variable name added at index out of range for byte")

write_string(chunk, str, line) ==
  LET c == Strings_add(chunk, str)
  IN write_indexed(c, OpCode.String, Len(c.strings) - 1, line,
                   "String added at index out of range for byte")

\* Option<Byte>: -1 when index is past the end
NoCode == -1

read_byte(chunk, index) ==
  IF 0 <= index /\ index < Len(chunk.code) THEN chunk.code[index + 1] ELSE NoCode

(***************************************************************************)
(* Compiler (src/compiler.rs): [locals, scope_depth]                       *)
(***************************************************************************)
LocalVar_new(name, scope_depth) == [name |-> name, scope_depth |-> scope_depth]

Compiler_new == [locals |-> <<>>, scope_depth |-> 0]

begin_scope(c) == [c EXCEPT !.scope_depth = @ + 1]

\* number of locals declared at the current depth
end_scope_count(c) ==
  Cardinality({i \in 1..Len(c.locals) : c.locals[i].scope_depth = c.scope_depth})

\* [compiler, r, count]
end_scope(c) ==
  IF c.scope_depth < 1 THEN [compiler |-> c, r |-> CompileError("ScopeUnderflow"), count |-> 0]
  ELSE LET count == end_scope_count(c)
       IN [compiler |-> [locals |-> SubSeq(c.locals, 1, Len(c.locals) - count),
                         scope_depth |-> c.scope_depth - 1],
           r |-> OkR, count |-> count]

in_local_scope(c) == c.scope_depth > 0

\* a collision with a local of the same name at any depth
collision_at_any_depth(c, name) == \E i \in 1..Len(c.locals) : c.locals[i].name = name

RECURSIVE collision_from(_, _, _)
collision_from(c, name, i) ==
  IF i < 1 THEN FALSE
  ELSE IF c.locals[i].scope_depth < c.scope_depth THEN FALSE
  ELSE IF c.locals[i].name = name THEN TRUE
  ELSE collision_from(c, name, i - 1)

is_in_scope_name_collision(c, name) == collision_from(c, name, Len(c.locals))

\* [compiler, r, at]
add_local_var(c, name) ==
  IF is_in_scope_name_collision(c, name)
  THEN [compiler |-> c, at |-> 0,
        r |-> RuntimeErrorWithReason("Already a variable with this name in this scope")]
  ELSE [compiler |-> [c EXCEPT !.locals = Append(@, LocalVar_new(name, c.scope_depth))],
        at |-> Len(c.locals), r |-> OkR]

\* LocalVarResolution: FoundAt(i) is i, NotFound is -1
NotFound == -1

\* the walk from the front: the oldest local of that name
resolve_oldest_variable(c, name) ==
  LET found == {i \in 1..Len(c.locals) : c.locals[i].name = name}
  IN IF found = {} THEN NotFound
     ELSE (CHOOSE i \in found : \A j \in found : i <= j) - 1

resolve_local_variable(c, name) ==
  LET found == {i \in 1..Len(c.locals) : c.locals[i].name = name}
  IN IF found = {} THEN NotFound
     ELSE (CHOOSE i \in found : \A j \in found : j <= i) - 1

(***************************************************************************)
(* Parser (src/parser.rs).  A Parser is the record                         *)
(* [tokenizer, compiler, chunk, current, line] extended with seven history *)
(* fields that the parser never reads:                                     *)
(*   raised, raised_at  the first error any parsing step produced and the  *)
(*                      code length at that moment (OkR while none);       *)
(*   decls              for each successful add_local_var, the index it    *)
(*                      returned and the code length at that moment;       *)
(*   patches            for each successful patch_jump, the address it     *)
(*                      patched, the code length at that moment and the    *)
(*                      two bytes it replaced;                             *)
(*   loops              for each write_loop, the code length before it,    *)
(*                      its target, its Result and the code length after;  *)
(*   scopes             for each successful end_scope, the Compiler before *)
(*                      and after it, the count it returned and the code   *)
(*                      length at that moment;                             *)
(*   refs               for each variable reference compiled, its name,    *)
(*                      whether it is assigned to, the local table it was  *)
(*                      resolved in and the address of the instruction     *)
(*                      emitted for it;                                    *)
(* and with long: when positive, the first block of the source is known to *)
(* hold that many times one statement (LongStatement, LongNumber or        *)
(* LongString) and nothing else, and the loop of parse_block takes them in *)
(* one step (the programs whose jumps span more than U16_MAX bytes hold    *)
(* some 32 767 statements, those that fill a pool more than U8_MAX).       *)
(* A parsing function returns [p, r]: the parser afterwards and its        *)
(* Result.  Bind is `?` (the error returns at once); Drop is a call whose  *)
(* Result the code discards (only a panic still unwinds).                  *)
(***************************************************************************)
Parser_new(tokenizer) ==
  [tokenizer |-> tokenizer, compiler |-> Compiler_new, chunk |-> Chunk_new,
   current |-> NoToken, line |-> 0,
   raised |-> OkR, raised_at |-> 0, decls |-> <<>>, patches |-> <<>>,
   loops |-> <<>>, scopes |-> <<>>, refs |-> <<>>, long |-> 0]

Ok(p) == [p |-> p, r |-> OkR]

Fail(p, e) ==
  [p |-> IF IsOk(p.raised) THEN [p EXCEPT !.raised = e, !.raised_at = Len(p.chunk.code)] ELSE p,
   r |-> e]

Bind(res, next(_)) == IF IsOk(res.r) THEN next(res.p) ELSE res

Drop(res, next(_)) == IF IsPanic(res.r) THEN res ELSE next(res.p)

\* the Result of a chunk or compiler operation [chunk, r], taken into the parser
FromChunk(p, w) ==
  IF IsOk(w.r) THEN Ok([p EXCEPT !.chunk = w.chunk])
  ELSE Fail([p EXCEPT !.chunk = w.chunk], w.r)

\* self.current()?
Parser_current(p, next(_)) ==
  IF p.current = NoToken THEN Fail(p, CompileError("NotEnoughTokens")) ELSE next(p.current)

expect_done(p) ==
  IF p.current = NoToken THEN Ok(p) ELSE Fail(p, CompileError("TooMayTokens"))

expect(p, expected, error) ==
  Parser_current(p, LAMBDA tok :
    IF tok.kind = expected THEN Ok(p) ELSE Fail(p, RuntimeErrorWithReason(error)))

\* self.current = self.tokenizer.next(), and the line of the token taken
take_token(p, t) ==
  [p EXCEPT !.tokenizer = t.tz, !.current = t.tok,
            !.line = IF t.tok # NoToken THEN t.tok.line ELSE @]

Parser_advance(p) == take_token(p, token(p.tokenizer))

expect_advance(p, tok_kind, error) ==
  Parser_current(p, LAMBDA tok :
    IF tok.kind = tok_kind THEN Ok(Parser_advance(p))
    ELSE Fail(p, RuntimeErrorWithReason(error)))

precedence(tok_kind) ==
  CASE tok_kind = "Equal" -> 10
    [] tok_kind = "Or" -> 30
    [] tok_kind = "And" -> 40
    [] tok_kind \in {"EqualEqual", "BangEqual"} -> 50
    [] tok_kind \in {"Less", "Greater", "LessEqual", "GreaterEqual"} -> 60
    [] tok_kind \in {"Minus", "Plus"} -> 70
    [] tok_kind \in {"Star", "Slash"} -> 80
    [] tok_kind = "Bang" -> 90
    [] OTHER -> 0

emit_op_code(p, code, line) == Ok([p EXCEPT !.chunk = write_code(@, code, line)])

emit_op_codes(p, code1, code2, line) ==
  Bind(emit_op_code(p, code1, line), LAMBDA p1 : emit_op_code(p1, code2, line))

emit_constant(p, constant, line) == FromChunk(p, write_constant(p.chunk, constant, line))

emit_string(p, str, line) == FromChunk(p, write_string(p.chunk, str, line))

emit_define_global_var(p, str, line) ==
  FromChunk(p, write_define_global_var(p.chunk, str, line))

emit_set_global_var(p, str, line) == FromChunk(p, write_set_global_var(p.chunk, str, line))

emit_set_local_var(p, at, line) == FromChunk(p, write_set_local_var(p.chunk, at, line))

emit_get_global_var(p, str, line) == FromChunk(p, write_get_global_var(p.chunk, str, line))

emit_get_local_var(p, at, line) == FromChunk(p, write_get_local_var(p.chunk, at, line))

emit_return(p, line) == emit_op_code(p, OpCode.Return, line)

\* emit_jump(op)?: continues with the parser and the address to patch
emit_jump(p, op_code, next(_, _)) ==
  LET w == write_jump(p.chunk, op_code, p.line)
  IN next([p EXCEPT !.chunk = w.chunk], w.at)

\* the parser with the Result w of patch_jump(offset)
Parser_patched(p, offset, w) ==
  FromChunk(IF IsOk(w.r)
            THEN [p EXCEPT !.patches =
                    Append(@, [from |-> offset, to |-> Len(p.chunk.code),
                               was |-> <<p.chunk.code[offset + 1], p.chunk.code[offset + 2]>>])]
            ELSE p, w)

Parser_patch_jump(p, offset) == Parser_patched(p, offset, patch_jump(p.chunk, offset))

\* the parser with the Result w of write_loop(loop_start, ..)
Parser_looped(p, loop_start, w) ==
  FromChunk([p EXCEPT !.loops = Append(@, [from |-> Len(p.chunk.code), to |-> loop_start,
                                           r |-> w.r, len |-> Len(w.chunk.code)])], w)

emit_loop(p, loop_start) == Parser_looped(p, loop_start, write_loop(p.chunk, loop_start, p.line))

mark_code(p) == Len(p.chunk.code)

\* the Result w of the instruction emitted for a reference to name resolved in p
\* (assign: the reference is the target of an assignment)
Parser_referred(p, name, assign, w) ==
  IF IsOk(w.r)
  THEN [w EXCEPT !.p.refs = Append(@, [name |-> name, assign |-> assign,
                                       locals |-> p.compiler.locals,
                                       at |-> Len(p.chunk.code)])]
  ELSE w

\* an end that emits nothing
Parser_end_silent(p) == Ok(p)

Parser_end(p) == emit_return(p, p.line)

DigitValue(b) == CHOOSE i \in 0..9 : <<"0", "1", "2", "3", "4", "5", "6", "7", "8", "9">>[i + 1] = b

\* str::parse::<f64>() of a run of ASCII digits
RECURSIVE parse_f64(_)
parse_f64(str) ==
  IF Len(str) = 0 THEN 0
  ELSE 10 * parse_f64(SubSeq(str, 1, Len(str) - 1)) + DigitValue(SubSeq(str, Len(str), Len(str)))

parse_number(p) ==
  Parser_current(p, LAMBDA tok :
    LET it == parse_f64(tok.source)
        line == p.line
    IN Drop(emit_constant(Parser_advance(p), NumberOf(it), line), Ok))

parse_string(p) ==
  Parser_current(p, LAMBDA tok :
    LET it == SubSeq(tok.source, 2, Len(tok.source) - 1)
        line == p.line
    IN Drop(emit_string(Parser_advance(p), it, line), Ok))

parse_literal(p) ==
  Parser_current(p, LAMBDA tok :
    CASE tok.kind = "False" -> emit_op_code(Parser_advance(p), OpCode.False, p.line)
      [] tok.kind = "True" -> emit_op_code(Parser_advance(p), OpCode.True, p.line)
      [] tok.kind = "Nil" -> emit_op_code(Parser_advance(p), OpCode.Nil, p.line)
      [] OTHER -> Fail(p, CompileError("ExpectedPrefix")))

\* [p, r, name]
parse_var_name(p) ==
  IF p.current = NoToken THEN Fail(p, CompileError("NotEnoughTokens")) @@ [name |-> ""]
  ELSE IF p.current.kind = "Identifier"
       THEN Ok(Parser_advance(p)) @@ [name |-> p.current.source]
       ELSE LET f == Fail(p, RuntimeErrorWithReason("Expected variable name"))
            IN [p |-> Parser_advance(f.p), r |-> f.r, name |-> ""]

declare_local_var(p, name) ==
  LET a == add_local_var(p.compiler, name)
  IN IF IsOk(a.r)
     THEN Ok([p EXCEPT !.compiler = a.compiler,
                       !.decls = Append(@, [pc |-> Len(p.chunk.code), at |-> a.at])])
     ELSE Fail(p, a.r)

RECURSIVE parse_rule(_, _, _), parse_expression(_, _), parse_infix_loop(_, _), parse_binary(_),
          parse_named_variable(_, _), parse_grouping(_), parse_unary(_),
          parse_return(_), parse_and_expression(_), parse_or_expression(_),
          parse_declaration(_), parse_statement(_), parse_print_statement(_),
          parse_expression_statement(_), parse_var_declaration(_),
          parse_block(_), parse_block_loop(_), parse_if_statement(_),
          parse_while_statement(_), parse_for_loop(_)

\* a loop that also takes an operator of the level of min_precedence: equal
\* levels associate to the right
parse_infix_loop_right(p, min_precedence) ==
  IF /\ p.current # NoToken
     /\ precedence(p.current.kind) >= min_precedence
     /\ precedence(p.current.kind) > 0
  THEN Bind(parse_binary(p), LAMBDA p1 : parse_infix_loop(p1, min_precedence))
  ELSE Ok(p)

\* the `while let Some(op) = self.current` loop of parse_expression
parse_infix_loop(p, min_precedence) ==
  IF p.current # NoToken /\ precedence(p.current.kind) > min_precedence
  THEN Bind(parse_binary(p), LAMBDA p1 : parse_infix_loop(p1, min_precedence))
  ELSE Ok(p)

parse_expression(p, min_precedence) ==
  Parser_current(p, LAMBDA tok :
    LET prefix ==
          CASE tok.kind = "Number" -> parse_number(p)
            [] tok.kind = "String" -> parse_string(p)
            [] tok.kind \in {"False", "True", "Nil"} -> parse_literal(p)
            [] tok.kind = "LeftParen" -> parse_grouping(p)
            [] tok.kind \in {"Minus", "Bang"} -> parse_unary(p)
            [] tok.kind = "Identifier" -> parse_named_variable(p, min_precedence)
            [] tok.kind = "Return" -> parse_return(p)
            [] OTHER -> Fail(p, Panic("not yet implemented"))
    IN Bind(prefix, LAMBDA p1 : parse_infix_loop(p1, min_precedence)))

parse_named_variable(p, min_precedence) ==
  LET nm == parse_var_name(p)
      name == nm.name
      p1 == nm.p
      line == p1.line
      is_local_var == resolve_local_variable(p1.compiler, name)
      can_assign == min_precedence <= precedence("Equal")
  IN
  IF ~IsOk(nm.r) THEN [p |-> nm.p, r |-> nm.r]
  ELSE Parser_current(p1, LAMBDA tok :
    IF tok.kind = "Equal" /\ can_assign THEN
      Bind(parse_rule("expression", Parser_advance(p1), 0), LAMBDA p2 :
      Bind(expect_advance(p2, "Semicolon", "Expected ';' after variable declaration"),
           LAMBDA p3 :
             Parser_referred(p3, name, TRUE,
               IF is_local_var # NotFound THEN emit_set_local_var(p3, is_local_var, line)
               ELSE emit_set_global_var(p3, name, line))))
    ELSE IF tok.kind = "Equal" THEN Fail(p1, RuntimeErrorWithReason("Invalid assignment target"))
    ELSE Parser_referred(p1, name, FALSE,
           IF is_local_var # NotFound THEN emit_get_local_var(p1, is_local_var, line)
           ELSE emit_get_global_var(p1, name, line)))

parse_grouping(p) ==
  Drop(parse_rule("expression", Parser_advance(p), 0), LAMBDA p1 :
  Parser_current(p1, LAMBDA tok :
    IF tok.kind = "RightParen" THEN Ok(Parser_advance(p1))
    ELSE Fail(p1, CompileError("ExpectedRightParen"))))

parse_unary(p) ==
  Parser_current(p, LAMBDA tok :
    LET line == p.line IN
    CASE tok.kind = "Minus" ->
           Drop(parse_rule("expression", Parser_advance(p), precedence(tok.kind)), LAMBDA p1 :
                emit_op_code(p1, OpCode.Negate, line))
      [] tok.kind = "Bang" ->
           Drop(parse_rule("expression", Parser_advance(p), precedence(tok.kind)), LAMBDA p1 :
                emit_op_code(p1, OpCode.Not, line))
      [] OTHER -> Fail(p, CompileError("ExpectedPrefix")))

\* the arms `advance; parse_expression(precedence(kind))?; emit_op_code(s)`
binary_arm(p, tok_kind, codes, line) ==
  Bind(parse_rule("expression", Parser_advance(p), precedence(tok_kind)), LAMBDA p1 :
    IF Len(codes) = 1 THEN Drop(emit_op_code(p1, codes[1], line), Ok)
    ELSE Drop(emit_op_codes(p1, codes[1], codes[2], line), Ok))

parse_binary(p) ==
  Parser_current(p, LAMBDA tok :
    LET line == p.line
        arm(codes) == binary_arm(p, tok.kind, codes, line)
    IN
    CASE tok.kind = "Plus" -> arm(<<OpCode.Add>>)
      [] tok.kind = "Minus" -> arm(<<OpCode.Subtract>>)
      [] tok.kind = "Star" -> arm(<<OpCode.Multiply>>)
      [] tok.kind = "Slash" -> arm(<<OpCode.Divide>>)
      [] tok.kind = "EqualEqual" -> arm(<<OpCode.Equal>>)
      [] tok.kind = "BangEqual" -> arm(<<OpCode.Equal, OpCode.Not>>)
      [] tok.kind = "Greater" -> arm(<<OpCode.Greater>>)
      [] tok.kind = "GreaterEqual" -> arm(<<OpCode.Less, OpCode.Not>>)
      [] tok.kind = "Less" -> arm(<<OpCode.Less>>)
      [] tok.kind = "LessEqual" -> arm(<<OpCode.Greater, OpCode.Not>>)
      \* the value of these two arms is the match's value, which `;` discards
      [] tok.kind = "And" -> Drop(parse_and_expression(p), Ok)
      [] tok.kind = "Or" -> Drop(parse_or_expression(p), Ok)
      [] OTHER -> Fail(p, CompileError("ExpectedBinaryOperator")))

parse_and_expression(p) ==
  emit_jump(Parser_advance(p), OpCode.JumpIfFalse, LAMBDA p1, jump_to_false :
  Bind(parse_rule("expression", p1, precedence("And")), LAMBDA p2 :
  emit_jump(p2, OpCode.Jump, LAMBDA p3, jump_to_continue :
  Bind(Parser_patch_jump(p3, jump_to_false), LAMBDA p4 :
  Bind(emit_op_code(p4, OpCode.False, p4.line), LAMBDA p5 :
  Parser_patch_jump(p5, jump_to_continue))))))

parse_or_expression(p) ==
  emit_jump(Parser_advance(p), OpCode.JumpIfTrue, LAMBDA p1, jump_to_true :
  Bind(parse_rule("expression", p1, precedence("Or")), LAMBDA p2 :
  emit_jump(p2, OpCode.Jump, LAMBDA p3, jump_to_continue :
  Bind(Parser_patch_jump(p3, jump_to_true), LAMBDA p4 :
  Bind(emit_op_code(p4, OpCode.True, p4.line), LAMBDA p5 :
  Parser_patch_jump(p5, jump_to_continue))))))

parse_declaration(p) ==
  Parser_current(p, LAMBDA tok :
    IF tok.kind = "Var" THEN parse_var_declaration(p) ELSE parse_rule("statement", p, 0))

parse_statement(p) ==
  Parser_current(p, LAMBDA tok :
    CASE tok.kind = "Print" -> parse_print_statement(p)
      [] tok.kind = "LeftBrace" -> parse_block(p)
      [] tok.kind = "If" -> parse_if_statement(p)
      [] tok.kind = "While" -> parse_while_statement(p)
      [] tok.kind = "For" -> parse_for_loop(p)
      [] OTHER -> parse_rule("expression", p, 0))

parse_print_statement(p) ==
  Bind(parse_rule("expression", Parser_advance(p), 0), LAMBDA p1 :
  Drop(expect_advance(p1, "Semicolon", "Expected ';' after value"), LAMBDA p2 :
  emit_op_code(p2, OpCode.Print, p2.line)))

parse_expression_statement(p) ==
  Drop(parse_rule("expression", p, 0), LAMBDA p1 :
  Drop(expect_advance(p1, "Semicolon", "Expected ';' after value"), LAMBDA p2 :
  emit_op_code(p2, OpCode.Pop, p2.line)))

parse_var_declaration(p) ==
  LET nm == parse_var_name(Parser_advance(p)) IN
  IF ~IsOk(nm.r) THEN [p |-> nm.p, r |-> nm.r]
  ELSE Parser_current(nm.p, LAMBDA tok :
    Bind(IF tok.kind = "Equal" THEN parse_rule("expression", Parser_advance(nm.p), 0)
         ELSE emit_op_code(nm.p, OpCode.Nil, nm.p.line), LAMBDA p1 :
    Bind(expect_advance(p1, "Semicolon", "Expected ';' after variable declaration"),
         LAMBDA p2 :
           IF in_local_scope(p2.compiler) THEN declare_local_var(p2, nm.name)
           ELSE emit_define_global_var(p2, nm.name, p2.line))))

\* the `while local_vars_to_pop > 0` loop of parse_block
RECURSIVE emit_pops(_, _)
emit_pops(p, local_vars_to_pop) ==
  IF local_vars_to_pop > 0
  THEN Bind(emit_op_code(p, OpCode.Pop, p.line), LAMBDA p1 : emit_pops(p1, local_vars_to_pop - 1))
  ELSE Ok(p)

\* self.compiler.end_scope()?: continues with the parser and the count
Parser_end_scope(p, next(_, _)) ==
  LET e == end_scope(p.compiler)
  IN IF IsOk(e.r)
     THEN next([p EXCEPT !.compiler = e.compiler,
                         !.scopes = Append(@, [before |-> p.compiler, after |-> e.compiler,
                                               count |-> e.count, at |-> Len(p.chunk.code)])],
               e.count)
     ELSE Fail(p, e.r)

RECURSIVE Repeat(_, _, _)
Repeat(s, k, empty) ==
  IF k = 0 THEN empty
  ELSE LET half == Repeat(s, k \div 2, empty)
       IN IF k % 2 = 0 THEN half \o half ELSE half \o half \o s

LongStatement == " print nil;"

\* statements of the length of LongStatement whose expression takes an entry
\* of the constant pool, or of the string pool
LongNumber == " print 123;"

LongString == " print \"s\";"

\* the statement that the first block repeats, read at its first token
long_statement(p, tok) ==
  Slice(p.tokenizer.source, tok.offset - 1, tok.offset - 1 + Len(LongStatement))

\* the passes over st whose pool index fits a byte (Byte::try_from is Ok)
long_passes(p, st) ==
  LET used == IF st = LongNumber THEN Len(p.chunk.constants)
              ELSE IF st = LongString THEN Len(p.chunk.strings) ELSE 0
      room == IF U8_MAX + 1 > used THEN U8_MAX + 1 - used ELSE 0
  IN IF st = LongStatement \/ p.long <= room THEN p.long ELSE room

\* what `passes` passes of parse_print_statement over st write at line
long_written(chunk, st, passes, line) ==
  IF st = LongStatement
  THEN [chunk EXCEPT !.code = @ \o Repeat(<<OpCode.Nil, OpCode.Print>>, passes, <<>>),
                     !.lines = @ \o Repeat(<<line, line>>, passes, <<>>)]
  ELSE LET pool == IF st = LongNumber THEN chunk.constants ELSE chunk.strings
           code == [i \in 1..(3 * passes) |->
                      CASE i % 3 = 1 -> IF st = LongNumber THEN OpCode.Constant
                                        ELSE OpCode.String
                        [] i % 3 = 2 -> Len(pool) + (i \div 3)
                        [] OTHER -> OpCode.Print]
       IN [chunk EXCEPT
             !.code = @ \o code,
             !.lines = @ \o [i \in 1..(3 * passes) |-> line],
             !.constants = IF st = LongNumber
                           THEN @ \o [i \in 1..passes |-> NumberOf(123)] ELSE @,
             !.strings = IF st = LongString THEN @ \o [i \in 1..passes |-> "s"] ELSE @]

\* the first passes of the loop of parse_block, each over one statement of
\* the first block, in one step: every pass is parse_print_statement, which
\* emits the expression and Print and leaves the next token current.  The
\* passes whose pool index does not fit a byte are left to the loop itself.
long_step(p, tok, st, passes) ==
  Ok(Parser_advance(
    [p EXCEPT !.tokenizer.current = tok.offset - 1 + passes * Len(st),
              !.chunk = long_written(@, st, passes, tok.line),
              !.long = 0]))

parse_long_statements(p) ==
  Parser_current(p, LAMBDA tok :
    long_step(p, tok, long_statement(p, tok), long_passes(p, long_statement(p, tok))))

\* the `while !current()?.is_kind(RightBrace) && !current()?.is_kind(Eof)` loop
parse_block_loop(p) ==
  IF p.long > 0 THEN Bind(parse_long_statements(p), parse_block_loop)
  ELSE
  Parser_current(p, LAMBDA tok :
    IF tok.kind # "RightBrace" /\ tok.kind # "Eof"
    THEN Bind(parse_rule("declaration", p, 0), parse_block_loop)
    ELSE Ok(p))

parse_block(p) ==
  Bind(parse_block_loop([Parser_advance(p) EXCEPT !.compiler = begin_scope(@)]), LAMBDA p1 :
  Parser_end_scope(p1, LAMBDA p2, local_vars_to_pop :
  Bind(emit_pops(p2, local_vars_to_pop), LAMBDA p3 :
  Drop(expect_advance(p3, "RightBrace", "Expect '}' after block"), Ok))))

parse_return(p) ==
  LET p0 == Parser_advance(p) IN
  Parser_current(p0, LAMBDA tok :
    Drop(IF tok.kind = "Semicolon" THEN emit_op_code(p0, OpCode.Nil, p0.line)
         ELSE parse_rule("expression", p0, 0), LAMBDA p1 :
    Bind(expect_advance(p1, "Semicolon", "Expected ';' after variable declaration"),
         LAMBDA p2 : emit_op_code(p2, OpCode.Return, p2.line))))

parse_if_statement(p) ==
  Bind(expect_advance(Parser_advance(p), "LeftParen", "Expect '(' after if"), LAMBDA p1 :
  Drop(parse_rule("expression", p1, 0), LAMBDA p2 :
  Bind(expect_advance(p2, "RightParen", "Expect ')' after if condition"), LAMBDA p3 :
  emit_jump(p3, OpCode.JumpIfFalse, LAMBDA p4, jump_to_else :
  Bind(parse_rule("statement", p4, 0), LAMBDA p5 :
  emit_jump(p5, OpCode.Jump, LAMBDA p6, jump_to_continue :
  Drop(Parser_patch_jump(p6, jump_to_else), LAMBDA p7 :
  Parser_current(p7, LAMBDA tok :
    Drop(IF tok.kind = "Else" THEN Drop(parse_rule("statement", Parser_advance(p7), 0), Ok) ELSE Ok(p7),
         LAMBDA p8 :
    Drop(Parser_patch_jump(p8, jump_to_continue), Ok))))))))))

parse_while_statement(p) ==
  LET p0 == Parser_advance(p)
      loop_start == mark_code(p0)
  IN
  Bind(expect_advance(p0, "LeftParen", "Expect '(' after while"), LAMBDA p1 :
  Drop(parse_rule("expression", p1, 0), LAMBDA p2 :
  Bind(expect_advance(p2, "RightParen", "Expect ')' after while condition"), LAMBDA p3 :
  emit_jump(p3, OpCode.JumpIfFalse, LAMBDA p4, jump_to_exit :
  Bind(parse_rule("statement", p4, 0), LAMBDA p5 :
  Bind(emit_loop(p5, loop_start), LAMBDA p6 :
  Drop(Parser_patch_jump(p6, jump_to_exit), Ok)))))))

\* the initializer clause of parse_for_loop
parse_for_initializer(p) ==
  Parser_current(p, LAMBDA tok :
    CASE tok.kind = "Semicolon" ->
           expect_advance(p, "Semicolon", "Expect ';' after initializer in for loop")
      [] tok.kind = "Var" -> parse_var_declaration(p)
      [] OTHER -> parse_expression_statement(p))

parse_for_loop(p) ==
  LET p0 == Parser_advance([p EXCEPT !.compiler = begin_scope(@)]) IN
  Bind(expect_advance(p0, "LeftParen", "Expect '(' after for"), LAMBDA p1 :
  Bind(parse_for_initializer(p1), LAMBDA p2 :
  LET to_condition == mark_code(p2) IN
  Parser_current(p2, LAMBDA tok2 :
  Bind(IF tok2.kind = "Semicolon" THEN Ok(p2) ELSE parse_rule("expression", p2, 0), LAMBDA p3 :
  Bind(expect_advance(p3, "Semicolon", "Expect ';' after condition in for loop"), LAMBDA p4 :
  emit_jump(p4, OpCode.JumpIfTrue, LAMBDA p5, to_block :
  emit_jump(p5, OpCode.Jump, LAMBDA p6, to_exit :
  LET to_modify == mark_code(p6) IN
  Parser_current(p6, LAMBDA tok6 :
  Bind(IF tok6.kind = "RightParen" THEN Ok(p6) ELSE parse_rule("expression", p6, 0), LAMBDA p7 :
  Bind(emit_loop(p7, to_condition), LAMBDA p8 :
  Bind(expect_advance(p8, "RightParen", "Expect ')' after for"), LAMBDA p9 :
  Bind(Parser_patch_jump(p9, to_block), LAMBDA p10 :
  Bind(expect(p10, "LeftBrace", "Expect '{' in for loop"), LAMBDA p11 :
  Bind(parse_rule("statement", p11, 0), LAMBDA p12 :
  Bind(emit_loop(p12, to_modify), LAMBDA p13 :
  Bind(Parser_patch_jump(p13, to_exit), LAMBDA p14 :
  Parser_end_scope(p14, LAMBDA p15, count : Ok(p15))))))))))))))))))

\* the `while it.current.is_some()` loop of Parser::parse
RECURSIVE parse_declarations(_)
parse_declarations(p) ==
  IF p.current # NoToken THEN Bind(parse_rule("declaration", p, 0), parse_declarations) ELSE Ok(p)

\* self.parse_expression(min_precedence), self.parse_statement() and
\* self.parse_declaration(): the mutually recursive parsing functions call each
\* other through this one operator
parse_rule(rule, p, min_precedence) ==
  CASE rule = "expression" -> parse_expression(p, min_precedence)
    [] rule = "statement" -> parse_statement(p)
    [] rule = "declaration" -> parse_declaration(p)

\* Parser::parse once it has built its Parser p from the tokenizer: [p, r];
\* the chunk of the Ok result is p.chunk
Parser_parse(p) ==
  Bind(parse_declarations(Parser_advance(p)), LAMBDA p1 :
  Bind(expect_done(p1), Parser_end))

(***************************************************************************)
(* Stack (src/vm/stack.rs), heap (src/heap/rc.rs) and Vm (src/vm.rs).      *)
(* A Vm is the record [stack, heap, globals, ip]; its chunk is the state   *)
(* variable chunk.  A usize that wrapped below zero (an underflowing       *)
(* subtraction built without overflow checks) is represented by the        *)
(* negative integer congruent to it modulo 2^64: it is past the end of     *)
(* every Vec, and adding to it wraps back as the machine does.             *)
(***************************************************************************)
\* Option<Value>::None
NoValue == [t |-> "<none>"]

Stack_pop(stack) == SubSeq(stack, 1, Len(stack) - 1)

Stack_get(stack, at) == IF 0 <= at /\ at < Len(stack) THEN stack[at + 1] ELSE NoValue

\* Stack::peek: [r, value].  len - 1 - offset underflows when len <= offset: a
\* panic with overflow checks (debug), a wrapped index and so None without
peek_panics(stack, offset, overflow_checks) == overflow_checks /\ Len(stack) - 1 - offset < 0

Stack_peek(stack, offset, overflow_checks) ==
  IF peek_panics(stack, offset, overflow_checks)
  THEN [r |-> Panic("attempt to subtract with overflow"), value |-> NoValue]
  ELSE [r |-> OkR, value |-> Stack_get(stack, Len(stack) - 1 - offset)]

\* Stack::set: self.0[at] = value
Stack_set(stack, at, value) == [stack EXCEPT ![at + 1] = value]

\* RcHeap::alloc: [heap, ptr]
Heap_alloc(heap, object) == [heap |-> Append(heap, object), ptr |-> Len(heap)]

Vm_new == [stack |-> <<>>, heap |-> <<>>, globals |-> <<>>, ip |-> 0]

\* HashMap<String, Value> as a function from the defined names
globals_insert(globals, name, value) ==
  [k \in DOMAIN globals \cup {name} |-> IF k = name THEN value ELSE globals[k]]

\* The outcome of one iteration of the loop of Vm::run: the Vm afterwards and
\* r = Pending (the loop goes on), OkR (break Ok(value)) or the error returned
Continue(vm) == [vm |-> vm, r |-> Pending, value |-> NoValue]

Stop(vm, e) == [vm |-> vm, r |-> e, value |-> NoValue]

Break(vm, value) == [vm |-> vm, r |-> OkR, value |-> value]

Vm_advance(vm) == [vm EXCEPT !.ip = @ + 1]

push_stack(vm, value) == [vm EXCEPT !.stack = Append(@, value)]

\* self.pop_stack()?: continues with the Vm and the popped value
pop_stack(vm, next(_, _)) ==
  IF Len(vm.stack) = 0 THEN Stop(vm, StackUnderflowError)
  ELSE next([vm EXCEPT !.stack = Stack_pop(@)], vm.stack[Len(vm.stack)])

\* self.peek_stack(offset).ok_or(StackUnderflowError)?
peek_stack_expected(vm, offset, overflow_checks, next(_)) ==
  LET it == Stack_peek(vm.stack, offset, overflow_checks)
  IN IF IsPanic(it.r) THEN Stop(vm, it.r)
     ELSE IF it.value = NoValue THEN Stop(vm, StackUnderflowError)
     ELSE next(it.value)

\* self.peek_stack(offset).is_some_and(test): [r, is]
peek_is(vm, offset, overflow_checks, test(_)) ==
  LET it == Stack_peek(vm.stack, offset, overflow_checks)
  IN [r |-> it.r, is |-> IsOk(it.r) /\ it.value # NoValue /\ test(it.value)]

\* peek_stack(0).is_some_and(test) && peek_stack(1).is_some_and(test)
peek_both(vm, overflow_checks, test(_)) ==
  LET top == peek_is(vm, 0, overflow_checks, test)
  IN IF IsPanic(top.r) \/ ~top.is THEN top ELSE peek_is(vm, 1, overflow_checks, test)

\* self.read_byte().ok_or(RuntimeError)?
Vm_read_byte(ch, vm, next(_, _)) ==
  LET byte == read_byte(ch, vm.ip)
  IN IF byte = NoCode THEN Stop(Vm_advance(vm), RuntimeError) ELSE next(Vm_advance(vm), byte)

\* self.read_jump().ok_or(RuntimeError)?
Vm_read_jump(ch, vm, next(_, _)) ==
  LET at == vm.ip
      v == Vm_advance(Vm_advance(vm))
      higher == read_byte(ch, at)
      lower == read_byte(ch, at + 1)
  IN IF higher = NoCode \/ lower = NoCode THEN Stop(v, RuntimeError)
     ELSE next(v, Jump_from_bytes(higher, lower))

\* chunk.read_constant(index): NoValue for None
read_constant(ch, index) ==
  LET i == read_byte(ch, index)
  IN IF i = NoCode \/ i >= Len(ch.constants) THEN NoValue ELSE ch.constants[i + 1]

\* chunk.read_string(index): [some, str]
read_string(ch, index) ==
  LET i == read_byte(ch, index)
  IN IF i = NoCode \/ i >= Len(ch.strings) THEN [some |-> FALSE, str |-> ""]
     ELSE [some |-> TRUE, str |-> ch.strings[i + 1]]

Vm_read_constant(ch, vm, next(_, _)) ==
  LET x == read_constant(ch, vm.ip)
  IN IF x = NoValue THEN Stop(Vm_advance(vm), RuntimeError) ELSE next(Vm_advance(vm), x)

Vm_read_string(ch, vm, next(_, _)) ==
  LET it == read_string(ch, vm.ip)
      a == Heap_alloc(vm.heap, ObjString(it.str))
  IN IF ~it.some THEN Stop(Vm_advance(vm), RuntimeError)
     ELSE next([Vm_advance(vm) EXCEPT !.heap = a.heap], Object(a.ptr))

read_global_name(ch, vm, next(_, _)) ==
  LET it == read_string(ch, vm.ip)
  IN IF ~it.some THEN Stop(Vm_advance(vm), RuntimeError) ELSE next(Vm_advance(vm), it.str)

jump_forward(vm, distance) == [vm EXCEPT !.ip = @ + distance]

\* self.ip -= distance
jump_backward(vm, distance, overflow_checks) ==
  IF overflow_checks /\ vm.ip - distance < 0
  THEN Stop(vm, Panic("attempt to subtract with overflow"))
  ELSE Continue([vm EXCEPT !.ip = @ - distance])

\* Chunk::disassemble_instruction(byte, at) (src/chunk/disassemble.rs), called
\* by read_decode: it only prints, but unwraps the operand it prints
disassemble_panics(ch, byte, at, overflow_checks) ==
  \/ /\ byte = OpCode.Constant
     /\ read_constant(ch, at + 1) = NoValue
  \/ /\ byte \in {OpCode.String, OpCode.DefineGlobal, OpCode.GetGlobal, OpCode.SetGlobal}
     /\ ~read_string(ch, at + 1).some
  \/ /\ byte \in {OpCode.GetLocal, OpCode.SetLocal}
     /\ read_byte(ch, at + 1) = NoCode
  \/ /\ byte \in {OpCode.JumpIfFalse, OpCode.JumpIfTrue, OpCode.Jump, OpCode.Loop}
     /\ (read_byte(ch, at + 1) = NoCode \/ read_byte(ch, at + 2) = NoCode)
  \/ /\ byte = OpCode.Loop
     /\ read_byte(ch, at + 1) # NoCode /\ read_byte(ch, at + 2) # NoCode
     /\ overflow_checks
     /\ at - Jump_from_bytes(read_byte(ch, at + 1), read_byte(ch, at + 2)) < 0

\* Vm::read_decode: [vm, r, code]
read_decode(ch, vm, overflow_checks) ==
  LET byte == read_byte(ch, vm.ip)
      v == Vm_advance(vm)
  IN IF byte = NoCode \/ ~OpCode_try_from(byte) THEN [vm |-> v, r |-> RuntimeError, code |-> NoCode]
     ELSE IF disassemble_panics(ch, byte, v.ip - 1, overflow_checks)
          THEN [vm |-> v, r |-> Panic("disassemble_instruction"), code |-> NoCode]
     ELSE [vm |-> v, r |-> OkR, code |-> byte]

(***************************************************************************)
(* The arms of the match in Vm::run; vm is the Vm after read_decode         *)
(***************************************************************************)
run_Return(vm) == pop_stack(vm, LAMBDA v, it : Break(v, it))

run_Not(vm) == pop_stack(vm, LAMBDA v, it : Continue(push_stack(v, Bool(~is_truthy(it)))))

run_Literal(vm, code) ==
  Continue(push_stack(vm, IF code = OpCode.False THEN Bool(FALSE)
                          ELSE IF code = OpCode.True THEN Bool(TRUE) ELSE Nil))

run_String(ch, vm) == Vm_read_string(ch, vm, LAMBDA v, x : Continue(push_stack(v, x)))

\* an Equal that compares two Objects by their address
Equal_by_address(vm) ==
  pop_stack(vm, LAMBDA v1, rhs :
  pop_stack(v1, LAMBDA v2, lhs :
  Continue(push_stack(v2, Bool(IF is_string(lhs) /\ is_string(rhs) THEN lhs = rhs
                               ELSE value_eq(vm.heap, lhs, rhs))))))

run_Equal(vm) ==
  pop_stack(vm, LAMBDA v1, rhs :
  pop_stack(v1, LAMBDA v2, lhs :
  Continue(push_stack(v2, Bool(value_eq(vm.heap, lhs, rhs))))))

\* binary_op_number! / binary_op_bool!: apply(lhs, rhs) is the Value pushed
binary_op(vm, overflow_checks, apply(_, _)) ==
  LET numbers == peek_both(vm, overflow_checks, is_number)
  IN IF IsPanic(numbers.r) THEN Stop(vm, numbers.r)
     ELSE IF ~numbers.is THEN Stop(vm, RuntimeErrorWithReason("Operands must be numbers"))
     ELSE pop_stack(vm, LAMBDA v1, rhs :
          pop_stack(v1, LAMBDA v2, lhs :
          Continue(push_stack(v2, apply(as_number(lhs), as_number(rhs))))))

run_Greater(vm, overflow_checks) ==
  binary_op(vm, overflow_checks, LAMBDA lhs, rhs : Bool(f64_gt(lhs, rhs)))

run_Less(vm, overflow_checks) ==
  binary_op(vm, overflow_checks, LAMBDA lhs, rhs : Bool(f64_lt(lhs, rhs)))

\* a concatenation that takes its operands in the order it pops them
concatenate_reversed(vm) ==
  pop_stack(vm, LAMBDA v1, rhs :
  pop_stack(v1, LAMBDA v2, lhs :
  LET it == Heap_alloc(v2.heap, ObjString(v2.heap[rhs.ptr + 1].str \o v2.heap[lhs.ptr + 1].str))
  IN Continue(push_stack([v2 EXCEPT !.heap = it.heap], Object(it.ptr)))))

string_concatenate(vm) ==
  pop_stack(vm, LAMBDA v1, rhs :
  pop_stack(v1, LAMBDA v2, lhs :
  LET it == Heap_alloc(v2.heap, ObjString(v2.heap[lhs.ptr + 1].str \o v2.heap[rhs.ptr + 1].str))
  IN Continue(push_stack([v2 EXCEPT !.heap = it.heap], Object(it.ptr)))))

\* the operands are popped first and their types checked afterwards
Add_pops_first(vm, overflow_checks) ==
  pop_stack(vm, LAMBDA v1, rhs :
  pop_stack(v1, LAMBDA v2, lhs :
    IF is_string(lhs) /\ is_string(rhs) THEN string_concatenate(vm)
    ELSE IF is_number(lhs) /\ is_number(rhs)
    THEN Continue(push_stack(v2, Number(f64_add(as_number(lhs), as_number(rhs)))))
    ELSE Stop(v2, RuntimeErrorWithReason("Operands must be numbers"))))

run_Add(vm, overflow_checks) ==
  LET is_str == peek_both(vm, overflow_checks, is_string)
  IN IF IsPanic(is_str.r) THEN Stop(vm, is_str.r)
     ELSE IF is_str.is THEN string_concatenate(vm)
     ELSE binary_op(vm, overflow_checks, LAMBDA lhs, rhs : Number(f64_add(lhs, rhs)))

run_Subtract(vm, overflow_checks) ==
  binary_op(vm, overflow_checks, LAMBDA lhs, rhs : Number(f64_sub(lhs, rhs)))

run_Multiply(vm, overflow_checks) ==
  binary_op(vm, overflow_checks, LAMBDA lhs, rhs : Number(f64_mul(lhs, rhs)))

run_Divide(vm, overflow_checks) ==
  binary_op(vm, overflow_checks, LAMBDA lhs, rhs : Number(f64_div(lhs, rhs)))

\* a Negate that takes Nil for zero
Negate_nil_as_zero(vm, overflow_checks) ==
  LET number == peek_is(vm, 0, overflow_checks, LAMBDA v : is_number(v) \/ is_nil(v))
  IN IF IsPanic(number.r) THEN Stop(vm, number.r)
     ELSE IF ~number.is THEN Stop(vm, RuntimeErrorWithReason("Negation works on numbers only"))
     ELSE pop_stack(vm, LAMBDA v, x :
            Continue(push_stack(v, IF is_nil(x) THEN NumberOf(0)
                                   ELSE Number(f64_neg(as_number(x))))))

run_Negate(vm, overflow_checks) ==
  LET number == peek_is(vm, 0, overflow_checks, is_number)
  IN IF IsPanic(number.r) THEN Stop(vm, number.r)
     ELSE IF ~number.is THEN Stop(vm, RuntimeErrorWithReason("Negation works on numbers only"))
     ELSE pop_stack(vm, LAMBDA v, x : Continue(push_stack(v, Number(f64_neg(as_number(x))))))

run_Constant(ch, vm) == Vm_read_constant(ch, vm, LAMBDA v, x : Continue(push_stack(v, x)))

run_DefineGlobal(ch, vm) ==
  read_global_name(ch, vm, LAMBDA v1, name :
  pop_stack(v1, LAMBDA v2, value :
  Continue([v2 EXCEPT !.globals = globals_insert(@, name, value)])))

\* a GetGlobal that enters an unknown name among the globals, as Nil
GetGlobal_inserts(ch, vm) ==
  read_global_name(ch, vm, LAMBDA v, name :
  IF name \in DOMAIN v.globals THEN Continue(push_stack(v, v.globals[name]))
  ELSE Continue(push_stack([v EXCEPT !.globals = globals_insert(@, name, Nil)], Nil)))

run_GetGlobal(ch, vm) ==
  read_global_name(ch, vm, LAMBDA v, name :
  Continue(push_stack(v, IF name \in DOMAIN v.globals THEN v.globals[name] ELSE Nil)))

\* a SetGlobal that inserts whether or not the name is defined
SetGlobal_inserts(ch, vm, overflow_checks) ==
  read_global_name(ch, vm, LAMBDA v, name :
  peek_stack_expected(v, 0, overflow_checks, LAMBDA value :
  Continue([v EXCEPT !.globals = globals_insert(@, name, value)])))

run_SetGlobal(ch, vm, overflow_checks) ==
  read_global_name(ch, vm, LAMBDA v, name :
  peek_stack_expected(v, 0, overflow_checks, LAMBDA value :
  IF name \in DOMAIN v.globals
  THEN Continue([v EXCEPT !.globals = globals_insert(@, name, value)])
  ELSE Stop(v, RuntimeErrorWithReason("Global is not defined"))))

run_GetLocal(ch, vm) ==
  Vm_read_byte(ch, vm, LAMBDA v, at :
  LET value == Stack_get(v.stack, at)
  IN IF value = NoValue
     THEN Stop(v, RuntimeErrorWithReason("Local variable value could not be found"))
     ELSE Continue(push_stack(v, value)))

\* a SetLocal that pops the value it assigns
SetLocal_pops(ch, vm, overflow_checks) ==
  Vm_read_byte(ch, vm, LAMBDA v, at :
  peek_stack_expected(v, 0, overflow_checks, LAMBDA value :
  IF at >= Len(v.stack) THEN Stop(v, Panic("index out of bounds"))
  ELSE Continue([v EXCEPT !.stack = Stack_pop(Stack_set(@, at, value))])))

run_SetLocal(ch, vm, overflow_checks) ==
  Vm_read_byte(ch, vm, LAMBDA v, at :
  peek_stack_expected(v, 0, overflow_checks, LAMBDA value :
  IF at >= Len(v.stack) THEN Stop(v, Panic("index out of bounds"))
  ELSE Continue([v EXCEPT !.stack = Stack_set(@, at, value)])))

\* Vm::print: [vm, r, value]; value is what println! writes
run_Print(vm) == pop_stack(vm, LAMBDA v, it : [vm |-> v, r |-> Pending, value |-> it])

\* a Pop that ignores an empty stack
Pop_ignores_empty(vm) ==
  IF vm.stack = <<>> THEN Continue(vm) ELSE Continue([vm EXCEPT !.stack = Stack_pop(@)])

run_Pop(vm) == pop_stack(vm, LAMBDA v, it : Continue(v))

\* a JumpIfFalse that never takes its jump
JumpIfFalse_falls_through(ch, vm, overflow_checks) ==
  Vm_read_jump(ch, vm, LAMBDA v, distance :
  peek_stack_expected(v, 0, overflow_checks, LAMBDA value : Continue(v)))

run_JumpIfFalse(ch, vm, overflow_checks) ==
  Vm_read_jump(ch, vm, LAMBDA v, distance :
  peek_stack_expected(v, 0, overflow_checks, LAMBDA value :
  IF ~is_truthy(value) THEN Continue(jump_forward(v, distance)) ELSE Continue(v)))

\* a JumpIfTrue that never takes its jump
JumpIfTrue_falls_through(ch, vm, overflow_checks) ==
  Vm_read_jump(ch, vm, LAMBDA v, distance :
  peek_stack_expected(v, 0, overflow_checks, LAMBDA value : Continue(v)))

run_JumpIfTrue(ch, vm, overflow_checks) ==
  Vm_read_jump(ch, vm, LAMBDA v, distance :
  peek_stack_expected(v, 0, overflow_checks, LAMBDA value :
  IF is_truthy(value) THEN Continue(jump_forward(v, distance)) ELSE Continue(v)))

run_Jump(ch, vm) == Vm_read_jump(ch, vm, LAMBDA v, distance : Continue(jump_forward(v, distance)))

\* a Loop that does not jump back
Loop_falls_through(ch, vm, overflow_checks) ==
  Vm_read_jump(ch, vm, LAMBDA v, distance : Continue(v))

run_Loop(ch, vm, overflow_checks) ==
  Vm_read_jump(ch, vm, LAMBDA v, distance : jump_backward(v, distance, overflow_checks))

(***************************************************************************)
(* The programs run.  Each is a source text handed to interpret_line       *)
(* (src/repl.rs), or a chunk built with the Chunk API and handed to        *)
(* interpret (src/vm.rs).                                                  *)
(***************************************************************************)
\* largest initial counter of the generated loops
MaxLoop == 4

RECURSIVE NumStr(_)
NumStr(n) ==
  IF n < 10 THEN SubSeq("0123456789", n + 1, n + 1)
  ELSE NumStr(n \div 10) \o SubSeq("0123456789", (n % 10) + 1, (n % 10) + 1)

BlockProgram == "var z; { var x; var y; x = 10; y = 20; z = x + y; } return z;"

LocalPrograms ==
  {"{ var x; x = 10; var y = 5; return y; }",
   "{ var x = 1; var y = 2; return x + y; }",
   "{ var a = 1; { var b = a + 1; a = b * 2; } print a; return -a / 4; }"}

TruthinessPrograms ==
  {"return !nil;", "return !0;", "return !1;", "return !false;", "return !true;",
   "return !\"a\";",
   "if (\"a\") { return 1; } else { return 2; } return 3;",
   "return \"a\" or 2;", "return nil or 2;", "return 1 and 2;", "return 0 and 2;"}

AssignmentPrograms ==
  {"a * b = 3 + 8;", "!b = 3;", "-b = 3;", "1 + b = 3;", "(b) = 3;",
   "var a = 1; a = 2; return a;", "var a = 1; var b = 2; a * b = 3 + 8;"}

ErrorPrograms ==
  {"print 1 print 2;", "print (1 +); return 2;", "return -; ", "return (1;",
   "if (x = 1) print 2; return 3;", "while (1 +) print 2; return 3;",
   "if (true) print 1; else print; return 3;",
   "return 1 and; ", "return 1 or; ", "{ print 1; ", "return;", "1 + ;",
   "if (true) print 2;"}

SpecForProgram == "var x=0; for (var i=0; i<10; i=i+1) { x=x+1; } return x;"

SpecForSumProgram == "var x=0; for (var i=0; i<5; i=i+1) { x = x + i; } return x;"

\* the syntax the parser accepts: the modifier is an assignment, which takes its `;`
ForProgram(n) ==
  "var x = 0; for (var i = 0; i < " \o NumStr(n) \o "; i = i + 1;) { x = x + 1; } return x;"

EndlessForProgram == "var x=0; for (;;) { x=x+1; if (x>=10) return x; } return x;"

SpecWhileProgram == "var x=0; var y=3; while (y>0) { y=y-1; x=x+1; } return x;"

WhileProgram(n) ==
  "var x = 0; var y = " \o NumStr(n)
    \o "; while (y > 0) { print y; y = y - 1; x = x + 1; } return x;"

\* conditions with the value each evaluates to
Conditions ==
  {[text |-> "true", value |-> Bool(TRUE)], [text |-> "false", value |-> Bool(FALSE)],
   [text |-> "nil", value |-> Nil], [text |-> "0", value |-> NumberOf(0)],
   [text |-> "3", value |-> NumberOf(3)], [text |-> "1 > 2", value |-> Bool(FALSE)],
   [text |-> "1 < 2", value |-> Bool(TRUE)], [text |-> "2 - 2", value |-> NumberOf(0)],
   [text |-> "!nil", value |-> Bool(TRUE)], [text |-> "1 == 1", value |-> Bool(TRUE)]}

SpecIfProgram == "var z=2; if (false) { z = 100; } else { z = 8; } return z;"

IfProgram(c) ==
  "var z = 2; if (" \o c \o ") { print 1; z = 100; } else { print 2; z = 8; } return z;"

\* right operands with the result of a program that returns their value;
\* running `-nil` is the runtime error of Negate
RightOperands ==
  {[text |-> "1 + 2", result |-> [r |-> OkR, value |-> NumberOf(3)]],
   [text |-> "nil", result |-> [r |-> OkR, value |-> Nil]],
   [text |-> "-nil",
    result |-> [r |-> RuntimeErrorWithReason("Negation works on numbers only"),
                value |-> NoValue]]}

AndProgram(a, b) == "return " \o a \o " and " \o b \o ";"

OrProgram(a, b) == "return " \o a \o " or " \o b \o ";"

\* the arithmetic operators with their precedence level
ArithmeticOperators ==
  {[text |-> "+", level |-> 70], [text |-> "-", level |-> 70],
   [text |-> "*", level |-> 80], [text |-> "/", level |-> 80]}

PrecedenceProgram(o1, o2) == "return 8 " \o o1 \o " 4 " \o o2 \o " 2;"

SpecPrecedencePrograms == {"10 + 30 * 40", "(10 + 30) * 40", "return 10 - 4 - 1;"}

\* operands with the value a program returning them yields
EqualOperands ==
  {[text |-> "1", value |-> NumberOf(1)], [text |-> "0", value |-> NumberOf(0)],
   [text |-> "100", value |-> NumberOf(100)], [text |-> "6 / 2 - 2", value |-> NumberOf(1)],
   [text |-> "1 / 0", value |-> Number(F64(1, 0))], [text |-> "0 / 0", value |-> Number(NaN)],
   [text |-> "true", value |-> Bool(TRUE)], [text |-> "false", value |-> Bool(FALSE)],
   [text |-> "nil", value |-> Nil],
   [text |-> "\"ok\"", value |-> [t |-> "Object", str |-> "ok"]],
   [text |-> "\"nok\"", value |-> [t |-> "Object", str |-> "nok"]],
   [text |-> "\"\"", value |-> [t |-> "Object", str |-> ""]]}

EqualProgram(a, b) == "return " \o a \o " == " \o b \o ";"

\* one value compared with itself
SameProgram(a) == "var s = " \o a \o "; return s == s;"

AddOperands ==
  {[text |-> "1", value |-> NumberOf(1)], [text |-> "2", value |-> NumberOf(2)],
   [text |-> "(3 - 5)", value |-> NumberOf(-2)],
   [text |-> "\"hello \"", value |-> [t |-> "Object", str |-> "hello "]],
   [text |-> "\"world\"", value |-> [t |-> "Object", str |-> "world"]],
   [text |-> "\"\"", value |-> [t |-> "Object", str |-> ""]],
   [text |-> "true", value |-> Bool(TRUE)], [text |-> "nil", value |-> Nil]}

AddProgram(a, b) == "return " \o a \o " + " \o b \o ";"

\* the operators compiled to Greater, Less, Subtract, Multiply and Divide
NumberOperators == {">", "<", ">=", "<=", "-", "*", "/"}

TypedOperands ==
  {[text |-> "2", value |-> NumberOf(2)], [text |-> "\"ok\"", value |-> Object(0)],
   [text |-> "true", value |-> Bool(TRUE)], [text |-> "nil", value |-> Nil]}

BinaryProgram(a, o, b) == "return " \o a \o " " \o o \o " " \o b \o ";"

NegateProgram(a) == "return -" \o a \o ";"

GlobalPrograms ==
  {"var it; unknown = 3 + 5; return unknown;", "var it; it = 3 + 5; return it;",
   "return unknown;", "var a = 1; var a = \"two\"; return a;",
   "var a = 1; a = 2; a = a + 1; var b = a; a = nil; return b;",
   "var a = 1; { var b = 2; b = a; a = b + 1; } return a;",
   "unknown = 1; return unknown;", "var a; return a;"}

\* expressions that stand as a statement, between `var it;` and `return it;`
StatementExpressions == {"it = 3 + 5", "it = 10", "1 + 2", "it"}

StatementProgram(e) == "var it; " \o e \o "; return it;"

\* a name declared again in an inner scope, as a global and as a local
ShadowPrograms ==
  {"{ var a = 1; { var a = 2; print a; a = a + 1; } return a; }",
   "var a = 1; { var a = 2; { var b = a; var a = b; a = 4; } print a; } return a;"}

\* an `if` without `else`, and what follows it
IfOnlyProgram(c, rest) == "if (" \o c \o ") print 1;" \o rest

IfOnlyPrograms ==
  {IfOnlyProgram(c, rest) : c \in {"true", "false"}, rest \in {"", " return 2;", " print 3;"}}
  \cup {"{ if (false) print 1; }", "if (true) if (false) print 1; return 2;"}

\* an else-branch that is a block which fails before its `}`
UnclosedPrograms ==
  {"if (true) print 1; else { var a = 1;",
   "if (true) print 1; else { var a = 1; var a = 2; return 4;"}

OtherPrograms ==
  {"var s = \"hi \"; return s + \"there\";", "return \"a\" == \"a\";",
   "return (10 + -30) * 40;", "return 1 / 0 > 2;", "return 1 + nil;", "return -true;",
   "print 1 + 2; return nil;", "x = 1;", "return x;", ""}

Sources ==
  {BlockProgram, SpecForProgram, SpecForSumProgram, EndlessForProgram,
   SpecWhileProgram, SpecIfProgram}
  \cup LocalPrograms \cup TruthinessPrograms \cup AssignmentPrograms
  \cup ErrorPrograms \cup OtherPrograms
  \cup {ForProgram(n) : n \in 0..MaxLoop}
  \cup {WhileProgram(n) : n \in 0..MaxLoop}
  \cup {IfProgram(c.text) : c \in Conditions}
  \cup SpecPrecedencePrograms
  \cup {PrecedenceProgram(o1.text, o2.text) : o1, o2 \in ArithmeticOperators}
  \cup {AndProgram(a.text, b.text) : a \in Conditions, b \in RightOperands}
  \cup {EqualProgram(a.text, b.text) : a, b \in EqualOperands}
  \cup {SameProgram(a.text) : a \in EqualOperands}
  \cup {AddProgram(a.text, b.text) : a, b \in AddOperands}
  \cup GlobalPrograms
  \cup {BinaryProgram(a.text, o, b.text) : a, b \in TypedOperands, o \in NumberOperators}
  \cup {NegateProgram(a.text) : a \in TypedOperands}
  \cup {"return \"hello\" + \" \" + \"world\";"}
  \cup {OrProgram(a.text, b.text) : a \in Conditions, b \in RightOperands}
  \cup {StatementProgram(e) : e \in StatementExpressions}
  \cup ShadowPrograms
  \cup IfOnlyPrograms
  \cup UnclosedPrograms

\* chunks whose last instruction pops more values than the stack holds
PoppingChunks ==
  {write_code(Chunk_new, code, 0) :
     code \in {OpCode.Pop, OpCode.Print, OpCode.Return, OpCode.Not, OpCode.Equal}}
  \cup {write_define_global_var(Chunk_new, "g", 0).chunk,
        write_code(write_code(Chunk_new, OpCode.Nil, 0), OpCode.Equal, 0)}

\* chunks whose last instruction peeks deeper than the stack holds
PeekingChunks ==
  {write_jump(Chunk_new, code, 0).chunk : code \in {OpCode.JumpIfFalse, OpCode.JumpIfTrue}}
  \cup {write_set_local_var(Chunk_new, 0, 0).chunk,
        write_set_global_var(Chunk_new, "g", 0).chunk,
        write_code(Chunk_new, OpCode.Negate, 0)}
  \cup {write_code(write_constant(Chunk_new, NumberOf(1), 0).chunk, code, 0) :
          code \in {OpCode.Greater, OpCode.Less, OpCode.Add, OpCode.Subtract,
                    OpCode.Multiply, OpCode.Divide}}

\* chunks written with the Chunk API, as src/main.rs does
Chunks ==
  {write_constant(Chunk_new, NumberOf(1), 0).chunk,
   write_code(Chunk_new, OpCode.Return, 0),
   write_byte(write_code(Chunk_new, OpCode.Nil, 0), U8_MAX, 0),
   write_byte(write_byte(write_code(Chunk_new, OpCode.Loop, 0), 0, 0), 4, 0),
   write_code(Chunk_new, OpCode.Jump, 0),
   write_set_local_var(write_code(Chunk_new, OpCode.Nil, 0), 1, 0).chunk}
  \cup PoppingChunks \cup PeekingChunks

(***************************************************************************)
(* State.  interpret_line parses the source, runs the chunk and returns.   *)
(***************************************************************************)
VARIABLES
  build,         \* "debug" (overflow checks on) or "release" (off)
  source,        \* the line given to interpret_line
  pc,            \* "parse", "run" (in the loop of Vm::run), "ran", "done";
                 \* "write" while a caller of the Chunk API writes the chunk;
                 \* "scan" while a caller of the Tokenizer takes tokens;
                 \* "declare" while a caller of the Compiler declares locals
  parser,        \* the Parser; the chunk it returns is parser.chunk
  parse_result,  \* the Result of Parser::parse
  vm,            \* the Vm
  op,            \* the OpCode read_decode returned last
  run_result,    \* the Result<Value> of Vm::run
  result,        \* the Result<Returned> of interpret, or the panic that ended it
  stdout         \* the values written by Vm::print

vars == <<build, source, pc, parser, parse_result, vm, op, run_result, result, stdout>>

chunk == parser.chunk

overflow_checks == build = "debug"

NoResult == [r |-> Pending, value |-> NoValue]

Init ==
  /\ build \in {"debug", "release"}
  /\ \/ /\ source \in Sources
        /\ pc = "parse"
        /\ parser = Parser_new(Tokenizer_new(source))
     \/ /\ source = ""
        /\ pc = "run"
        /\ parser \in {[Parser_new(Tokenizer_new("")) EXCEPT !.chunk = c] : c \in Chunks}
  /\ parse_result = IF pc = "parse" THEN Pending ELSE OkR
  /\ vm = Vm_new
  /\ op = NoCode
  /\ run_result = NoResult
  /\ result = NoResult
  /\ stdout = <<>>

\* interpret_line with the Result of Parser::parse: `?`, then interpret's Vm::new
Parsed(it) ==
  /\ parser' = it.p
  /\ parse_result' = it.r
  /\ pc' = IF IsOk(it.r) THEN "run" ELSE "done"
  /\ result' = IF IsOk(it.r) THEN result ELSE [r |-> it.r, value |-> NoValue]
  /\ vm' = Vm_new
  /\ UNCHANGED <<build, source, op, run_result, stdout>>

Parse ==
  /\ pc = "parse"
  /\ \E it \in {Parser_parse(parser)} : Parsed(it)

Decoded == read_decode(chunk, vm, overflow_checks)

\* how one iteration of the loop of Vm::run ends
Ends(res) ==
  /\ vm' = res.vm
  /\ IF res.r = Pending
     THEN pc' = "run" /\ UNCHANGED <<run_result, result>>
     ELSE IF IsPanic(res.r)
     THEN pc' = "done" /\ result' = [r |-> res.r, value |-> NoValue] /\ UNCHANGED run_result
     ELSE pc' = "ran" /\ run_result' = [r |-> res.r, value |-> res.value] /\ UNCHANGED result
  /\ UNCHANGED <<build, source, parser, parse_result>>

\* self.read_decode()? failed
DecodeError ==
  /\ pc = "run"
  /\ ~IsOk(Decoded.r)
  /\ Ends(Stop(Decoded.vm, Decoded.r))
  /\ UNCHANGED <<op, stdout>>

\* the arm of the match for code
Arm(code, res) ==
  /\ pc = "run"
  /\ IsOk(Decoded.r)
  /\ Decoded.code = code
  /\ op' = code
  /\ Ends(res)

Run_Return == Arm(OpCode.Return, run_Return(Decoded.vm)) /\ UNCHANGED stdout

Run_Not == Arm(OpCode.Not, run_Not(Decoded.vm)) /\ UNCHANGED stdout

Run_Literal ==
  \E code \in {OpCode.False, OpCode.True, OpCode.Nil} :
    Arm(code, run_Literal(Decoded.vm, code)) /\ UNCHANGED stdout

Run_String == Arm(OpCode.String, run_String(chunk, Decoded.vm)) /\ UNCHANGED stdout

Run_Equal == Arm(OpCode.Equal, run_Equal(Decoded.vm)) /\ UNCHANGED stdout

Run_Greater ==
  Arm(OpCode.Greater, run_Greater(Decoded.vm, overflow_checks)) /\ UNCHANGED stdout

Run_Less == Arm(OpCode.Less, run_Less(Decoded.vm, overflow_checks)) /\ UNCHANGED stdout

Run_Add == Arm(OpCode.Add, run_Add(Decoded.vm, overflow_checks)) /\ UNCHANGED stdout

Run_Subtract ==
  Arm(OpCode.Subtract, run_Subtract(Decoded.vm, overflow_checks)) /\ UNCHANGED stdout

Run_Multiply ==
  Arm(OpCode.Multiply, run_Multiply(Decoded.vm, overflow_checks)) /\ UNCHANGED stdout

Run_Divide ==
  Arm(OpCode.Divide, run_Divide(Decoded.vm, overflow_checks)) /\ UNCHANGED stdout

Run_Negate ==
  Arm(OpCode.Negate, run_Negate(Decoded.vm, overflow_checks)) /\ UNCHANGED stdout

Run_Constant == Arm(OpCode.Constant, run_Constant(chunk, Decoded.vm)) /\ UNCHANGED stdout

Run_DefineGlobal ==
  Arm(OpCode.DefineGlobal, run_DefineGlobal(chunk, Decoded.vm)) /\ UNCHANGED stdout

Run_GetGlobal == Arm(OpCode.GetGlobal, run_GetGlobal(chunk, Decoded.vm)) /\ UNCHANGED stdout

Run_SetGlobal ==
  Arm(OpCode.SetGlobal, run_SetGlobal(chunk, Decoded.vm, overflow_checks)) /\ UNCHANGED stdout

Run_GetLocal == Arm(OpCode.GetLocal, run_GetLocal(chunk, Decoded.vm)) /\ UNCHANGED stdout

Run_SetLocal ==
  Arm(OpCode.SetLocal, run_SetLocal(chunk, Decoded.vm, overflow_checks)) /\ UNCHANGED stdout

Run_Print ==
  LET res == run_Print(Decoded.vm)
  IN /\ Arm(OpCode.Print, [res EXCEPT !.value = NoValue])
     /\ stdout' = IF res.value = NoValue THEN stdout ELSE Append(stdout, res.value)

Run_Pop == Arm(OpCode.Pop, run_Pop(Decoded.vm)) /\ UNCHANGED stdout

Run_JumpIfFalse ==
  Arm(OpCode.JumpIfFalse, run_JumpIfFalse(chunk, Decoded.vm, overflow_checks))
  /\ UNCHANGED stdout

Run_JumpIfTrue ==
  Arm(OpCode.JumpIfTrue, run_JumpIfTrue(chunk, Decoded.vm, overflow_checks))
  /\ UNCHANGED stdout

Run_Jump == Arm(OpCode.Jump, run_Jump(chunk, Decoded.vm)) /\ UNCHANGED stdout

Run_Loop == Arm(OpCode.Loop, run_Loop(chunk, Decoded.vm, overflow_checks)) /\ UNCHANGED stdout

\* interpret after vm.run(): heap.free_all(), result.map(Returned::from)
Finish ==
  /\ pc = "ran"
  /\ pc' = "done"
  /\ vm' = [vm EXCEPT !.heap = <<>>]
  /\ result' = IF IsOk(run_result.r)
               THEN [r |-> OkR, value |-> Returned_from(vm.heap, run_result.value)]
               ELSE run_result
  /\ UNCHANGED <<build, source, parser, parse_result, op, run_result, stdout>>

Next ==
  \/ Parse
  \/ DecodeError
  \/ Run_Return
  \/ Run_Not
  \/ Run_Literal
  \/ Run_String
  \/ Run_Equal
  \/ Run_Greater
  \/ Run_Less
  \/ Run_Add
  \/ Run_Subtract
  \/ Run_Multiply
  \/ Run_Divide
  \/ Run_Negate
  \/ Run_Constant
  \/ Run_DefineGlobal
  \/ Run_GetGlobal
  \/ Run_SetGlobal
  \/ Run_GetLocal
  \/ Run_SetLocal
  \/ Run_Print
  \/ Run_Pop
  \/ Run_JumpIfFalse
  \/ Run_JumpIfTrue
  \/ Run_Jump
  \/ Run_Loop
  \/ Finish

Spec == Init /\ [][Next]_vars

\* interpret_line and the loop of Vm::run run to their end: weak fairness of
\* Next, stated for Parse by its guard (Parse is enabled exactly when
\* pc = "parse") and for the steps of the run by WF
FairSpec ==
  /\ Spec
  /\ []<>(pc # "parse") \/ []<><<Parse>>_vars
  /\ WF_vars(pc # "parse" /\ Next)

(***************************************************************************)
(* Long programs: the compilation of programs whose if, while or for       *)
(* statement has a body of about U16_MAX bytes, and of programs that take  *)
(* about U8_MAX + 1 entries of a pool.                                     *)
(***************************************************************************)
JumpMargin == 8

LongHeads == {"if (true)", "while (true)", "for (;;)"}

LongProgram(head, k) == head \o " {" \o Repeat(LongStatement, k, "") \o " } return 1;"

\* the numbers of statements around the limit of every jump
LongLengths == (U16_MAX \div 2 - JumpMargin)..(U16_MAX \div 2 + JumpMargin)

\* a block of k statements that each take one entry of a pool
PoolMargin == 2

PoolProgram(st, k) == "{" \o Repeat(st, k, "") \o " }"

\* the numbers of statements around the number of indices of a byte
PoolLengths == (U8_MAX + 1 - PoolMargin)..(U8_MAX + 1 + PoolMargin)

JumpInit ==
  /\ build \in {"debug", "release"}
  /\ \E k \in LongLengths \cup PoolLengths :
       /\ source \in IF k \in LongLengths THEN {LongProgram(head, k) : head \in LongHeads}
                     ELSE {PoolProgram(st, k) : st \in {LongNumber, LongString}}
       /\ parser = [Parser_new(Tokenizer_new(source)) EXCEPT !.long = k]
  /\ pc = "parse"
  /\ parse_result = Pending
  /\ vm = Vm_new
  /\ op = NoCode
  /\ run_result = NoResult
  /\ result = NoResult
  /\ stdout = <<>>

JumpSpec == JumpInit /\ [][Parse]_vars

\* loops that never run their body: heads of long programs that are run
NeverHeads == {"while (false)", "for (; false;)"}

\* the programs of Init, and the compilation and the run of long loops
LoopInit ==
  \/ Init
  \/ /\ build \in {"debug", "release"}
     /\ \E head \in NeverHeads, k \in LongLengths :
          /\ source = LongProgram(head, k)
          /\ parser = [Parser_new(Tokenizer_new(source)) EXCEPT !.long = k]
     /\ pc = "parse"
     /\ parse_result = Pending
     /\ vm = Vm_new
     /\ op = NoCode
     /\ run_result = NoResult
     /\ result = NoResult
     /\ stdout = <<>>

LoopSpec == LoopInit /\ [][Next]_vars

(***************************************************************************)
(* Chunk writing: a caller of the Chunk API (src/chunk.rs), as the parser  *)
(* or src/main.rs, that writes instructions at the line parser.line,       *)
(* patches jumps and moves on to the next line, in any order.              *)
(***************************************************************************)
\* the longest code written, in bytes
MaxCode == 5

\* the last line written at
MaxLine == 1

ChunkInit ==
  /\ build \in {"debug", "release"}
  /\ source = ""
  /\ pc = "write"
  /\ parser = Parser_new(Tokenizer_new(source))
  /\ parse_result = Pending
  /\ vm = Vm_new
  /\ op = NoCode
  /\ run_result = NoResult
  /\ result = NoResult
  /\ stdout = <<>>

\* the chunk after a call of the API that returned Ok
Written(w) ==
  /\ pc = "write"
  /\ IsOk(w.r)
  /\ Len(w.chunk.code) <= MaxCode
  /\ parser' = [parser EXCEPT !.chunk = w.chunk]
  /\ UNCHANGED <<build, source, pc, parse_result, vm, op, run_result, result, stdout>>

Write_code ==
  \E code \in {OpCode.Nil, OpCode.Return} :
    Written([chunk |-> write_code(chunk, code, parser.line), r |-> OkR])

Write_constant == Written(write_constant(chunk, NumberOf(1), parser.line))

Write_string == Written(write_string(chunk, "s", parser.line))

Write_define_global_var == Written(write_define_global_var(chunk, "g", parser.line))

Write_set_global_var == Written(write_set_global_var(chunk, "g", parser.line))

Write_get_global_var == Written(write_get_global_var(chunk, "g", parser.line))

Write_set_local_var == Written(write_set_local_var(chunk, 0, parser.line))

Write_get_local_var == Written(write_get_local_var(chunk, 0, parser.line))

Write_jump ==
  \E code \in {OpCode.JumpIfFalse, OpCode.Jump} :
    Written([chunk |-> write_jump(chunk, code, parser.line).chunk, r |-> OkR])

\* patch_jump(at) for an address write_jump returned
Patch_jump ==
  \E at \in 1..(Len(chunk.code) - 2) :
    /\ chunk.code[at] \in {OpCode.JumpIfFalse, OpCode.Jump}
    /\ Written(patch_jump(chunk, at))

Write_loop == \E to \in 0..Len(chunk.code) : Written(write_loop(chunk, to, parser.line))

\* the caller goes on to the next line of the source
Next_line ==
  /\ pc = "write"
  /\ parser.line < MaxLine
  /\ parser' = [parser EXCEPT !.line = @ + 1]
  /\ UNCHANGED <<build, source, pc, parse_result, vm, op, run_result, result, stdout>>

ChunkNext ==
  \/ Write_code
  \/ Write_constant
  \/ Write_string
  \/ Write_define_global_var
  \/ Write_set_global_var
  \/ Write_get_global_var
  \/ Write_set_local_var
  \/ Write_get_local_var
  \/ Write_jump
  \/ Patch_jump
  \/ Write_loop
  \/ Next_line

ChunkSpec == ChunkInit /\ [][ChunkNext]_vars

(***************************************************************************)
(* Declaring: the parser's use of the Compiler (src/compiler.rs) while it  *)
(* compiles blocks and the `var` declarations in them: begin_scope at `{`, *)
(* end_scope at `}` and declare_local_var for a `var` inside a scope, in   *)
(* any order.  parse_result is the Result of the call made last.           *)
(***************************************************************************)
\* the deepest nesting of scopes
MaxDepth == 2

\* the number of locals declared in all
MaxDecls == 4

LocalNames == {"a", "b"}

DeclareInit ==
  /\ build \in {"debug", "release"}
  /\ source = ""
  /\ pc = "declare"
  /\ parser = Parser_new(Tokenizer_new(source))
  /\ parse_result = OkR
  /\ vm = Vm_new
  /\ op = NoCode
  /\ run_result = NoResult
  /\ result = NoResult
  /\ stdout = <<>>

\* the parser and the Result after a call
Called(p, r) ==
  /\ pc = "declare"
  /\ parser' = p
  /\ parse_result' = r
  /\ UNCHANGED <<build, source, pc, vm, op, run_result, result, stdout>>

Begin_scope ==
  /\ parser.compiler.scope_depth < MaxDepth
  /\ Called([parser EXCEPT !.compiler = begin_scope(@)], OkR)

End_scope ==
  Called([parser EXCEPT !.compiler = end_scope(@).compiler], end_scope(parser.compiler).r)

\* self.declare_local_var(name) of parse_var_declaration
Declare_local_var(name) ==
  /\ in_local_scope(parser.compiler)
  /\ Len(parser.decls) < MaxDecls
  /\ Called(declare_local_var(parser, name).p, declare_local_var(parser, name).r)

Declare == \E name \in LocalNames : Declare_local_var(name)

DeclareNext ==
  \/ Begin_scope
  \/ End_scope
  \/ Declare

DeclareSpec == DeclareInit /\ [][DeclareNext]_vars

(***************************************************************************)
(* Scanning: a caller of the Tokenizer (src/tokenizer.rs), as              *)
(* Parser::advance, that calls next() again and again, also after next()   *)
(* has returned None.  parser.current is the Option<Token> returned last.  *)
(***************************************************************************)
ScanSuffixes == {"", "and", "es", "n", "1", "_"}

\* every reserved word, alone and continued by a suffix or after an underscore
ScanWords ==
  {Keywords[k][1] \o suffix : k \in DOMAIN Keywords, suffix \in ScanSuffixes}
  \cup {"_" \o Keywords[k][1] : k \in DOMAIN Keywords}
  \cup {"it", "_it", "it5", "AND", "x"}

ScanSeparators ==
  {" ", "\n", "!", ";", "// c\n", " \n\n", "//\n\n// d\n", "\"s\"", "\"a\nb\""}

\* sources of the tests of src/tokenizer.rs and sources that end the stream
ScanTexts ==
  {"and ! and! !and andand", "class classes", "else elsen", "if iff", "*\n!\n.",
   "// ok this is a comment", "// ok this is a comment \n    /()*",
   "// ok this is a comment \n!", "(){};,.-+/*", "!= \"Hello world!\"", "1009",
   "it _it it5", "!!====<=<>=>", "\"Hello world!", "x \"no end\n", "\"ok\" \"no",
   "@", "a @ b", "a\n#", "1 & 2", "x // c\n | y", "\"a\nb\" c\n\"d\ne", ""}

ScanSources ==
  ScanWords \cup ScanTexts
  \cup {a \o sep \o b : a, b \in {"and", "andand", "x", "1"}, sep \in ScanSeparators}

ScanInit ==
  /\ build \in {"debug", "release"}
  /\ source \in ScanSources
  /\ pc = "scan"
  /\ parser = Parser_new(Tokenizer_new(source))
  /\ parse_result = Pending
  /\ vm = Vm_new
  /\ op = NoCode
  /\ run_result = NoResult
  /\ result = NoResult
  /\ stdout = <<>>

\* self.current = self.tokenizer.next()
Scan_next ==
  /\ pc = "scan"
  /\ parser' = Parser_advance(parser)
  /\ UNCHANGED <<build, source, pc, parse_result, vm, op, run_result, result, stdout>>

ScanSpec == ScanInit /\ [][Scan_next]_vars

(***************************************************************************)
(* Properties.                                                             *)
(***************************************************************************)
\* interpret_line has returned Ok(value)
Yields(value) == pc = "done" /\ result = [r |-> OkR, value |-> value]

\* C1: compiling and running BlockProgram yields Number(30), and once Return
\* has popped that result the operand stack is empty.
C1_BlockProgramEndsEmpty ==
  (source = BlockProgram /\ pc = "done") => (Yields(NumberOf(30)) /\ vm.stack = <<>>)

\* C2: the index the compiler assigns to a local is the operand stack slot
\* that holds its value: when the run reaches the instruction after the
\* initializer of a declaration, the value on top of the stack, which is the
\* new local, sits at the index add_local_var returned.
C2_LocalIndexIsStackSlot ==
  \A i \in DOMAIN parser.decls :
    (pc = "run" /\ vm.ip = parser.decls[i].pc) => Len(vm.stack) = parser.decls[i].at + 1

\* C3: Not, JumpIfFalse and JumpIfTrue act on the truthiness of the value on
\* top of the stack, where Nil is false, a Bool is itself, a Number is true
\* iff non-zero and every Object is true: Not replaces the value by the Bool
\* of its negated truthiness, JumpIfFalse jumps iff it is not truthy,
\* JumpIfTrue iff it is.
C3_Truthiness ==
  [][(pc = "run" /\ IsOk(Decoded.r) /\ vm.stack # <<>>) =>
       LET top == vm.stack[Len(vm.stack)]
           distance == Jump_from_bytes(read_byte(chunk, vm.ip + 1), read_byte(chunk, vm.ip + 2))
       IN /\ Decoded.code = OpCode.Not =>
               vm'.stack = Append(Stack_pop(vm.stack), Bool(~Truthy(top)))
          /\ Decoded.code = OpCode.JumpIfFalse =>
               vm'.ip = vm.ip + 3 + (IF Truthy(top) THEN 0 ELSE distance)
          /\ Decoded.code = OpCode.JumpIfTrue =>
               vm'.ip = vm.ip + 3 + (IF Truthy(top) THEN distance ELSE 0)]_vars

\* C4: once parse_named_variable has met an `=` it may not assign to and
\* raised "Invalid assignment target", the compilation has failed with that
\* error.
C4_InvalidAssignmentTarget ==
  (pc # "parse" /\ parser.raised = RuntimeErrorWithReason("Invalid assignment target"))
    => parse_result = RuntimeErrorWithReason("Invalid assignment target")

\* C5: compiling a program with a forward branch of more than U16_MAX bytes
\* fails with JumpTooFar: once a jump could not be written or patched because
\* its distance does not fit, Parser::parse returns JumpTooFar and no chunk.
C5_JumpTooFar ==
  (pc # "parse" /\ parser.raised = JumpTooFar) => parse_result = JumpTooFar

\* C6: the first error raised by any parsing step stops the compilation and
\* is the result of Parser::parse, and no bytecode is emitted after it.
C6_FirstErrorStopsCompilation ==
  (pc # "parse" /\ ~IsOk(parser.raised)) =>
    (parse_result = parser.raised /\ Len(parser.chunk.code) = parser.raised_at)

\* C7: the for loops with all three clauses that the specification gives
\* compile and run to their count: both return 10.
C7_ForLoopCounts ==
  (pc = "done" /\ source \in {SpecForProgram, SpecForSumProgram}) => Yields(NumberOf(10))

\* C8: the for loop with no initializer, condition or modifier loops until
\* its early return: EndlessForProgram returns 10.
C8_EndlessForReturns ==
  (pc = "done" /\ source = EndlessForProgram) => Yields(NumberOf(10))

FirstBranch(ch) ==
  CHOOSE i \in 0..(Len(ch.code) - 1) :
    /\ ch.code[i + 1] \in {OpCode.JumpIfFalse, OpCode.JumpIfTrue}
    /\ \A j \in 0..(i - 1) : ch.code[j + 1] \notin {OpCode.JumpIfFalse, OpCode.JumpIfTrue}

\* the addresses of the instructions of b in the code of `return a and b;` or
\* `return a or b;`: from the operand of the conditional jump up to the Jump
\* that precedes the target of the conditional jump
RightOperandCode(ch) ==
  LET at == FirstBranch(ch)
      distance == Jump_from_bytes(ch.code[at + 2], ch.code[at + 3])
  IN (at + 3)..(at + distance - 1)

Applied(o, l, r) ==
  CASE o = "+" -> l + r
    [] o = "-" -> l - r
    [] o = "*" -> l * r
    [] o = "/" -> l \div r

\* C12: an infix operator binds tighter than one of a lower level to its
\* left, and operators of one level associate to the left.  `10 + 30 * 40`
\* compiles to Constant, Constant, Constant, Multiply, Add, Return and
\* `(10 + 30) * 40` to Constant, Constant, Add, Constant, Multiply, Return;
\* `return 10 - 4 - 1;` returns 5; and for all arithmetic operators o1, o2
\* `return 8 o1 4 o2 2;` returns 8 o1 (4 o2 2) when the level of o2 is
\* strictly greater than that of o1 and (8 o1 4) o2 2 otherwise.
C12_Precedence ==
  /\ (pc # "parse" /\ source = "10 + 30 * 40") =>
       /\ chunk.code = <<OpCode.Constant, 0, OpCode.Constant, 1, OpCode.Constant, 2,
                         OpCode.Multiply, OpCode.Add, OpCode.Return>>
       /\ chunk.constants = <<NumberOf(10), NumberOf(30), NumberOf(40)>>
  /\ (pc # "parse" /\ source = "(10 + 30) * 40") =>
       /\ chunk.code = <<OpCode.Constant, 0, OpCode.Constant, 1, OpCode.Add,
                         OpCode.Constant, 2, OpCode.Multiply, OpCode.Return>>
       /\ chunk.constants = <<NumberOf(10), NumberOf(30), NumberOf(40)>>
  /\ (pc = "done" /\ source = "return 10 - 4 - 1;") => Yields(NumberOf(5))
  /\ \A o1, o2 \in ArithmeticOperators :
       (pc = "done" /\ source = PrecedenceProgram(o1.text, o2.text)) =>
         Yields(NumberOf(IF o2.level > o1.level
                         THEN Applied(o1.text, 8, Applied(o2.text, 4, 2))
                         ELSE Applied(o2.text, Applied(o1.text, 8, 4), 2)))

\* `return 8 - 4 / 2;` was compiled with Divide before Subtract and has
\* returned 6
C12_TighterOperatorFirst ==
  /\ source = PrecedenceProgram("-", "/")
  /\ Yields(NumberOf(6))
  /\ chunk.code = <<OpCode.Constant, 0, OpCode.Constant, 1, OpCode.Constant, 2,
                    OpCode.Divide, OpCode.Subtract, OpCode.Return, OpCode.Return>>

\* Equal with two values on the stack replaces them by one Bool
EqualPopsTwoPushesBool ==
  (pc = "run" /\ IsOk(Decoded.r) /\ Decoded.code = OpCode.Equal /\ Len(vm.stack) >= 2) =>
    /\ Len(vm'.stack) = Len(vm.stack) - 1
    /\ SubSeq(vm'.stack, 1, Len(vm.stack) - 2) = SubSeq(vm.stack, 1, Len(vm.stack) - 2)
    /\ is_bool(vm'.stack[Len(vm'.stack)])

\* C13, as claimed: Equal pushes Bool(true) exactly when its operands have
\* the same variant and the same contents: `return a == b;` returns true iff
\* a and b evaluate to the same value (for Strings, the same characters), and
\* `var s = a; return s == s;` returns true.
C13_EqualIffSameContents ==
  pc = "done" =>
    /\ \A a, b \in EqualOperands :
         source = EqualProgram(a.text, b.text) => Yields(Bool(a.value = b.value))
    /\ \A a \in EqualOperands : source = SameProgram(a.text) => Yields(Bool(TRUE))

\* C13, amended: Equal pops r and l and pushes one Bool, true exactly when
\* both have the same variant and the same contents, where a Number that is
\* NaN (the result of 0 / 0) equals no value, itself included; values of
\* different variants are unequal, nil equals nil, and two Strings are equal
\* when their characters are, whether they are one heap object or two.
C13_EqualStructural ==
  /\ [](pc = "done" =>
         /\ \A a, b \in EqualOperands :
              source = EqualProgram(a.text, b.text) =>
                Yields(Bool(a.value = b.value /\ a.value # Number(NaN)))
         /\ \A a \in EqualOperands :
              source = SameProgram(a.text) => Yields(Bool(a.value # Number(NaN))))
  /\ [][EqualPopsTwoPushesBool]_vars

\* two Strings of the same characters in two heap objects were found equal
C13_EqualStringsInTwoObjects ==
  /\ source = EqualProgram("\"ok\"", "\"ok\"")
  /\ pc = "ran"
  /\ Len(vm.heap) = 2
  /\ run_result = [r |-> OkR, value |-> Bool(TRUE)]

\* Add with two Strings on the stack allocates: the heap grows by one object,
\* the objects it held stay, and the value pushed is the new address
AddAllocates ==
  (/\ pc = "run" /\ IsOk(Decoded.r) /\ Decoded.code = OpCode.Add /\ Len(vm.stack) >= 2
   /\ is_string(vm.stack[Len(vm.stack)]) /\ is_string(vm.stack[Len(vm.stack) - 1])) =>
    /\ Len(vm'.heap) = Len(vm.heap) + 1
    /\ SubSeq(vm'.heap, 1, Len(vm.heap)) = vm.heap
    /\ vm'.stack = Append(SubSeq(vm.stack, 1, Len(vm.stack) - 2), Object(Len(vm.heap)))

\* C14: Add on two Numbers pushes their sum, on two Strings a newly allocated
\* String of the characters of the left operand followed by those of the
\* right, and fails on every other pair of operands: `return a + b;` returns
\* the sum, returns the concatenation, or ends with the runtime error
\* "Operands must be numbers".
C14_Add ==
  /\ [](pc = "done" =>
         /\ \A a, b \in AddOperands :
              source = AddProgram(a.text, b.text) =>
                IF is_number(a.value) /\ is_number(b.value)
                THEN Yields(NumberOf(a.value.n + b.value.n))
                ELSE IF a.value.t = "Object" /\ b.value.t = "Object"
                THEN Yields([t |-> "Object", str |-> a.value.str \o b.value.str])
                ELSE result = [r |-> RuntimeErrorWithReason("Operands must be numbers"),
                               value |-> NoValue]
         /\ source = "return \"hello\" + \" \" + \"world\";" =>
              Yields([t |-> "Object", str |-> "hello world"]))
  /\ [][AddAllocates]_vars

\* "hello " + "world" has left a third object, "hello world", in the heap
C14_Concatenated ==
  /\ source = AddProgram("\"hello \"", "\"world\"")
  /\ pc = "ran"
  /\ vm.heap = <<ObjString("hello "), ObjString("world"), ObjString("hello world")>>
  /\ run_result = [r |-> OkR, value |-> Object(2)]

\* the run ends with the runtime error of the given message, the stack as it was
FailsWith(message) ==
  /\ pc' = "ran"
  /\ run_result' = [r |-> RuntimeErrorWithReason(message), value |-> NoValue]
  /\ vm'.stack = vm.stack

\* an operand is on the stack at the given offset from the top and is no Number
NotNumberAt(offset) ==
  Len(vm.stack) > offset /\ ~is_number(vm.stack[Len(vm.stack) - offset])

\* C15: Greater, Less, Subtract, Multiply and Divide run with an operand on
\* top of the stack or beneath it that is not a Number end the run with the
\* runtime error "Operands must be numbers", and Negate run on a value that
\* is not a Number with "Negation works on numbers only"; the stack is left
\* as it was.  So `return a o b;` fails with the first message for every
\* operator o compiled to these instructions unless a and b are Numbers, and
\* `return -a;` with the second unless a is.
C15_NumberOperands ==
  /\ [][(pc = "run" /\ IsOk(Decoded.r)) =>
          /\ (/\ Decoded.code \in {OpCode.Greater, OpCode.Less, OpCode.Subtract,
                                    OpCode.Multiply, OpCode.Divide}
              /\ (NotNumberAt(0) \/ (Len(vm.stack) >= 2 /\ NotNumberAt(1))))
               => FailsWith("Operands must be numbers")
          /\ (Decoded.code = OpCode.Negate /\ NotNumberAt(0))
               => FailsWith("Negation works on numbers only")]_vars
  /\ [](pc = "done" =>
         /\ \A a, b \in TypedOperands, o \in NumberOperators :
              source = BinaryProgram(a.text, o, b.text) =>
                IF is_number(a.value) /\ is_number(b.value) THEN IsOk(result.r)
                ELSE result = [r |-> RuntimeErrorWithReason("Operands must be numbers"),
                               value |-> NoValue]
         /\ \A a \in TypedOperands :
              source = NegateProgram(a.text) =>
                IF is_number(a.value) THEN Yields(NumberOf(-2))
                ELSE result = [r |-> RuntimeErrorWithReason("Negation works on numbers only"),
                               value |-> NoValue])

\* `2 * nil` has failed with both operands still on the stack
C15_OperandsLeft ==
  /\ source = BinaryProgram("2", "*", "nil")
  /\ pc = "done"
  /\ op = OpCode.Multiply
  /\ vm.stack = <<NumberOf(2), Nil>>
  /\ result.r = RuntimeErrorWithReason("Operands must be numbers")

\* the name that the instruction at vm.ip takes as its operand
OperandName == read_string(chunk, vm.ip + 1).str

\* C16: SetGlobal of a name that DefineGlobal has not defined, run with the
\* value to assign on the stack, ends the run with the runtime error "Global
\* is not defined" and leaves the globals as they were, without an entry for
\* the name; `var it; unknown = 3 + 5; return unknown;` ends with that error.
C16_SetGlobalUndefined ==
  /\ [][(/\ pc = "run" /\ IsOk(Decoded.r) /\ Decoded.code = OpCode.SetGlobal
          /\ vm.stack # <<>> /\ OperandName \notin DOMAIN vm.globals) =>
           /\ FailsWith("Global is not defined")
           /\ vm'.globals = vm.globals]_vars
  /\ [](pc = "done" /\ source \in {"var it; unknown = 3 + 5; return unknown;",
                                     "unknown = 1; return unknown;"} =>
         /\ result = [r |-> RuntimeErrorWithReason("Global is not defined"),
                       value |-> NoValue]
         /\ "unknown" \notin DOMAIN vm.globals)

\* the assignment to `unknown` has failed and `it` is the only global
C16_UndefinedNotCreated ==
  /\ source = "var it; unknown = 3 + 5; return unknown;"
  /\ pc = "done"
  /\ op = OpCode.SetGlobal
  /\ result.r = RuntimeErrorWithReason("Global is not defined")
  /\ vm.globals = [name \in {"it"} |-> Nil]

\* the globals after a step are those before it with value stored under name
Stores(name, value) ==
  /\ DOMAIN vm'.globals = DOMAIN vm.globals \cup {name}
  /\ \A k \in DOMAIN vm'.globals :
       vm'.globals[k] = IF k = name THEN value ELSE vm.globals[k]

\* C17: GetGlobal of a name that is not among the globals pushes Nil, raises
\* no error and leaves the globals as they were; GetGlobal of a defined name
\* pushes the value the globals hold for it, which is the one stored last:
\* DefineGlobal and a successful SetGlobal store the value on top of the
\* stack under their name and no other step changes the globals.  So
\* `return unknown;` returns nil, and a global that was defined, assigned
\* twice and copied reads as the value assigned last.
C17_GetGlobal ==
  /\ [][(pc = "run" /\ IsOk(Decoded.r)) =>
          LET top == vm.stack[Len(vm.stack)] IN
          /\ Decoded.code = OpCode.GetGlobal =>
               /\ pc' = "run"
               /\ vm'.globals = vm.globals
               /\ vm'.stack = Append(vm.stack, IF OperandName \in DOMAIN vm.globals
                                                THEN vm.globals[OperandName] ELSE Nil)
          /\ (Decoded.code = OpCode.DefineGlobal /\ vm.stack # <<>>) =>
               Stores(OperandName, top)
          /\ (Decoded.code = OpCode.SetGlobal /\ pc' = "run") => Stores(OperandName, top)
          /\ Decoded.code \notin {OpCode.DefineGlobal, OpCode.SetGlobal} =>
               vm'.globals = vm.globals]_vars
  /\ [](pc = "done" =>
         /\ source = "return unknown;" => Yields(Nil) /\ DOMAIN vm.globals = {}
         /\ source = "var a; return a;" => Yields(Nil)
         /\ source = "var a = 1; var a = \"two\"; return a;" =>
              Yields([t |-> "Object", str |-> "two"])
         /\ source = "var a = 1; a = 2; a = a + 1; var b = a; a = nil; return b;" =>
              Yields(NumberOf(3)) /\ vm.globals["a"] = Nil)

\* `return unknown;` has returned nil and no global exists
C17_UnknownIsNil ==
  /\ source = "return unknown;"
  /\ op = OpCode.Return
  /\ Yields(Nil)
  /\ DOMAIN vm.globals = {}

\* C18: SetLocal and SetGlobal peek.  After a SetLocal that succeeded the
\* stack is the one before it with the value on top also written to the
\* slot of its operand: the same depth, the same top, and nothing else of
\* the Vm changed but the instruction pointer.  After a SetGlobal that
\* succeeded the stack is unchanged and the globals differ only in the
\* value of the name, which is the value on top.
C18_SetPeeks ==
  [][(pc = "run" /\ IsOk(Decoded.r) /\ pc' = "run") =>
       LET top == vm.stack[Len(vm.stack)]
           slot == read_byte(chunk, vm.ip + 1)
       IN /\ Decoded.code = OpCode.SetLocal =>
               /\ vm'.stack = [vm.stack EXCEPT ![slot + 1] = top]
               /\ Len(vm'.stack) = Len(vm.stack)
               /\ vm'.stack[Len(vm'.stack)] = top
               /\ vm' = [vm EXCEPT !.stack = vm'.stack, !.ip = vm.ip + 2]
          /\ Decoded.code = OpCode.SetGlobal =>
               /\ vm'.stack = vm.stack
               /\ OperandName \in DOMAIN vm.globals
               /\ Stores(OperandName, top)
               /\ vm' = [vm EXCEPT !.globals = vm'.globals, !.ip = vm.ip + 2]]_vars

\* `b = a;` has written the 1 on top of the stack to slot 0 and left it on top
C18_LocalAssigned ==
  /\ source = "var a = 1; { var b = 2; b = a; a = b + 1; } return a;"
  /\ pc = "run"
  /\ op = OpCode.SetLocal
  /\ vm.stack = <<NumberOf(1), NumberOf(1)>>

\* C19: Pop, Print, Return, Not, Equal and DefineGlobal run on a stack that
\* holds fewer values than they pop end the run with StackUnderflowError,
\* which is neither RuntimeError nor a runtime error with a message; every
\* chunk of PoppingChunks ends so.
C19_StackUnderflow ==
  /\ [][(/\ pc = "run" /\ IsOk(Decoded.r)
          /\ \/ /\ Decoded.code \in {OpCode.Pop, OpCode.Print, OpCode.Return, OpCode.Not,
                                      OpCode.DefineGlobal}
                /\ vm.stack = <<>>
             \/ Decoded.code = OpCode.Equal /\ Len(vm.stack) < 2) =>
           /\ pc' = "ran"
           /\ run_result' = [r |-> StackUnderflowError, value |-> NoValue]
           /\ stdout' = stdout /\ vm'.globals = vm.globals]_vars
  /\ []((pc = "done" /\ source = "" /\ chunk \in PoppingChunks) =>
         /\ result = [r |-> StackUnderflowError, value |-> NoValue]
         /\ result.r # RuntimeError
         /\ \A message \in {"Operands must be numbers", "Negation works on numbers only",
                             "Global is not defined",
                             "Local variable value could not be found"} :
              result.r # RuntimeErrorWithReason(message))

\* a chunk holding only Not has ended with StackUnderflowError
C19_NotUnderflowed ==
  /\ source = ""
  /\ chunk = write_code(Chunk_new, OpCode.Not, 0)
  /\ pc = "done"
  /\ op = OpCode.Not
  /\ result.r = StackUnderflowError

\* C20: the line table follows the code.  In every chunk the Chunk API has
\* written lines and code have the same length, and every write appends to
\* lines, once for each byte it appends to code, the line it was passed;
\* patch_jump, which appends no byte, leaves lines as it is.
C20_LinesFollowCode ==
  /\ [](Len(chunk.lines) = Len(chunk.code))
  /\ [][pc = "write" =>
          /\ Len(chunk'.code) >= Len(chunk.code)
          /\ chunk'.lines =
               chunk.lines \o [i \in 1..(Len(chunk'.code) - Len(chunk.code)) |-> parser.line]]_vars

\* a jump written at line 0 was patched after a Nil was written at line 1
C20_PatchedAcrossLines ==
  /\ pc = "write"
  /\ chunk.code = <<OpCode.JumpIfFalse, 0, 1, OpCode.Nil>>
  /\ chunk.lines = <<0, 0, 0, 1>>

\* C21: pool indices fit in one byte.  Once a compilation has taken more
\* than U8_MAX + 1 entries of the constant pool or of the string pool,
\* Parser::parse has returned a compilation error, and the code holds no
\* operand byte for the index that is out of range.
C21_PoolIndexOutOfRange ==
  pc # "parse" /\ (Len(chunk.constants) > U8_MAX + 1 \/ Len(chunk.strings) > U8_MAX + 1)
    => /\ parse_result.err = "CompileError"
       /\ \A i \in DOMAIN chunk.code : chunk.code[i] <= U8_MAX

\* C22: the trailing Return.  Every chunk that Parser::parse returns ends
\* with the Return byte, and while the chunk compiled from a source runs, ip
\* stays inside the code: the run that comes to the end of the program
\* executes that Return.
C22_TrailingReturn ==
  /\ [](source # "" /\ pc = "run" => vm.ip \in 0..(Len(chunk.code) - 1))
  /\ [][pc = "parse" /\ IsOk(parse_result')
          => /\ Len(chunk'.code) > 0
             /\ chunk'.code[Len(chunk'.code)] = OpCode.Return]_vars

\* a compiled program without a return statement has run to its last byte
C22_RanToTheEnd ==
  /\ source # ""
  /\ pc = "ran"
  /\ op = OpCode.Return
  /\ vm.ip = Len(chunk.code)
  /\ IsOk(run_result.r)

\* byte i (0-based) of a source
ByteAt(s, i) == SubSeq(s, i + 1, i + 1)

\* the position of the first `\n` at or after i, the length of s when none
RECURSIVE LineEnd(_, _)
LineEnd(s, i) == IF i >= Len(s) \/ ByteAt(s, i) = "\n" THEN i ELSE LineEnd(s, i + 1)

\* the position of the first byte at or after i that is neither whitespace
\* nor part of a `//` comment, the length of s when there is none
RECURSIVE NextStart(_, _)
NextStart(s, i) ==
  IF i >= Len(s) THEN Len(s)
  ELSE IF ByteAt(s, i) \in {" ", "\t", "\n", "\f", "\r"} THEN NextStart(s, i + 1)
  ELSE IF i + 2 <= Len(s) /\ SubSeq(s, i + 1, i + 2) = "//" THEN NextStart(s, LineEnd(s, i) + 1)
  ELSE i

\* where the next call of next() starts to scan a token
ScanStart == NextStart(source, parser.tokenizer.current)

\* the end of the run of alphanumerics and underscores that holds byte i
RECURSIVE WordEnd(_, _)
WordEnd(s, i) ==
  IF i < Len(s) /\ ByteAt(s, i) \in Letters \cup Digits \cup {"_"} THEN WordEnd(s, i + 1) ELSE i

WordAt(s, i) == SubSeq(s, i + 1, WordEnd(s, i))

ReservedWords == {Keywords[k][1] : k \in DOMAIN Keywords}

ReservedKind(word) == Keywords[CHOOSE k \in DOMAIN Keywords : Keywords[k][1] = word][2]

\* C23: reserved words end at a boundary.  When next() starts at a letter or
\* an underscore, the token it returns is the whole run of alphanumerics and
\* underscores from there: of the kind of the reserved word when the run is
\* one of the reserved words, and an Identifier otherwise.
C23_ReservedWordBoundary ==
  [][pc = "scan" /\ ScanStart < Len(source)
       /\ ByteAt(source, ScanStart) \in Letters \cup {"_"}
       => /\ parser'.current.source = WordAt(source, ScanStart)
          /\ parser'.current.offset = ScanStart
          /\ parser'.current.kind =
               IF WordAt(source, ScanStart) \in ReservedWords
               THEN ReservedKind(WordAt(source, ScanStart))
               ELSE "Identifier"]_vars

\* `and andand` has been scanned as And and the Identifier andand
C23_AndThenAndand ==
  /\ pc = "scan"
  /\ source = "and andand"
  /\ parser.current.kind = "Identifier"
  /\ parser.current.source = "andand"
  /\ parser.current.offset = 4

\* the number of `\n` bytes of s before byte i
NewlinesBefore(s, i) == Cardinality({j \in 0..(i - 1) : j < Len(s) /\ ByteAt(s, j) = "\n"})

\* C24: the line of a token.  Every token that next() returns carries as its
\* line the number of `\n` bytes of the source that precede its first byte.
C24_TokenLine ==
  [][pc = "scan" /\ parser'.current # NoToken
       => parser'.current.line = NewlinesBefore(source, parser'.current.offset)]_vars

\* a string literal that starts at byte i and has no closing quote
Unterminated(s, i) ==
  /\ ByteAt(s, i) = "\""
  /\ \A j \in (i + 1)..(Len(s) - 1) : ByteAt(s, j) # "\""

\* the bytes that start a token
TokenStarts ==
  Letters \cup Digits
  \cup {"_", "\"", "(", ")", "{", "}", ";", ",", ".", "-", "+", "*", "/", "!", "=", "<", ">"}

\* next() has nothing more to return: the input has ended, or the scanner
\* stands before an unterminated string or a byte that starts no token
StreamEnds(s, i) ==
  \/ i >= Len(s)
  \/ Unterminated(s, i)
  \/ ByteAt(s, i) \notin TokenStarts

\* C25: the end of the token stream.  When next() comes to a string literal
\* with no closing quote, or to a byte that starts no token (or to the end of
\* the source), it returns None, and it leaves the scanner where it comes to
\* one of these again: every later call returns None as well.
C25_StreamEnds ==
  [][pc = "scan" /\ StreamEnds(source, ScanStart)
       => /\ parser'.current = NoToken
          /\ StreamEnds(source, NextStart(source, parser'.tokenizer.current))]_vars

\* next() has consumed a string literal with no closing quote and returned None
C25_UnterminatedConsumed ==
  /\ pc = "scan"
  /\ source = "x \"no end\n"
  /\ parser.current = NoToken
  /\ parser.tokenizer.checkpoint = 2
  /\ parser.tokenizer.current > Len(source)

\* C26: expression statements.  A program whose second statement is a bare
\* expression compiles, with exactly one Pop for that statement, and the
\* statement leaves nothing on the operand stack: once Return has popped the
\* value of `return it;` the stack is empty.
C26_ExpressionStatement ==
  source \in {StatementProgram(e) : e \in StatementExpressions} /\ pc # "parse"
    => /\ IsOk(parse_result)
       /\ Len(SelectSeq(chunk.code, LAMBDA byte : byte = OpCode.Pop)) = 1
       /\ pc = "done" => (IsOk(result.r) /\ vm.stack = <<>>)

JumpCodes == {OpCode.Jump, OpCode.JumpIfFalse, OpCode.JumpIfTrue}

\* the patches of the compilation whose first operand byte is at from
PatchesAt(from) == {k \in DOMAIN parser.patches : parser.patches[k].from = from}

\* C27: forward jumps.  Every jump the compiler has patched was emitted with
\* the operand (0, 0) and holds, higher byte first, the distance
\* to - from - 2 from its first operand byte to the code length at the time
\* of the patch; and when the run executes a patched jump, ip becomes to
\* when the jump is taken (always for Jump) and from + 2, the position after
\* the operand, when it is not.
C27_ForwardJumps ==
  /\ [](\A k \in DOMAIN parser.patches :
          LET j == parser.patches[k] IN
          /\ j.was = <<0, 0>>
          /\ chunk.code[j.from] \in JumpCodes
          /\ chunk.code[j.from + 1] * 256 + chunk.code[j.from + 2] = j.to - j.from - 2
          /\ chunk.code[j.from + 1] <= U8_MAX /\ chunk.code[j.from + 2] <= U8_MAX)
  /\ [][pc = "run" /\ pc' = "run" /\ op' \in JumpCodes /\ PatchesAt(vm.ip + 1) # {}
          => \A k \in PatchesAt(vm.ip + 1) :
               /\ vm'.ip \in {parser.patches[k].to, vm.ip + 3}
               /\ op' = OpCode.Jump => vm'.ip = parser.patches[k].to]_vars

\* a run has taken a patched JumpIfFalse over more than its operand
C27_JumpTaken ==
  /\ pc = "run"
  /\ op = OpCode.JumpIfFalse
  /\ \E k \in DOMAIN parser.patches :
       /\ vm.ip = parser.patches[k].to
       /\ parser.patches[k].to > parser.patches[k].from + 2
       /\ chunk.code[parser.patches[k].from] = OpCode.JumpIfFalse

C28_LoopTooFar ==
  /\ pc = "done"
  /\ parse_result = JumpTooFar
  /\ \E k \in DOMAIN parser.loops : parser.loops[k].r = JumpTooFar

\* C29: the end of a scope.  Every end_scope, of a block or of a for
\* statement, removes from the local table exactly the locals declared at
\* the depth that ends and returns their number, and one Pop is emitted for
\* each of them right after it.
C29_ScopeEnd ==
  \A k \in DOMAIN parser.scopes :
    LET s == parser.scopes[k]
        kept == SelectSeq(s.before.locals, LAMBDA v : v.scope_depth # s.before.scope_depth)
    IN /\ s.after.locals = kept
       /\ s.after.scope_depth = s.before.scope_depth - 1
       /\ s.count = Len(s.before.locals) - Len(kept)
       /\ pc # "parse"
            => /\ s.at + s.count <= Len(chunk.code)
               /\ \A i \in 1..s.count : chunk.code[s.at + i] = OpCode.Pop

\* a local called name is declared at the depth of the current scope
DeclaredInScope(name) ==
  \E i \in 1..Len(parser.compiler.locals) :
    /\ parser.compiler.locals[i].name = name
    /\ parser.compiler.locals[i].scope_depth = parser.compiler.scope_depth

\* C30: redeclaration.  Declaring a local fails with "Already a variable
\* with this name in this scope", and leaves the local table as it is, when
\* a local of that name is declared at the current scope_depth; otherwise,
\* also when the name is that of a local of a shallower depth, it succeeds,
\* appends the local with the current depth and returns the index
\* len(locals) it had before.
C30_Redeclaration ==
  [][\A name \in LocalNames :
       Declare_local_var(name)
         => IF DeclaredInScope(name)
            THEN /\ parse_result' =
                      RuntimeErrorWithReason("Already a variable with this name in this scope")
                 /\ parser'.compiler = parser.compiler
                 /\ parser'.decls = parser.decls
            ELSE /\ parse_result' = OkR
                 /\ parser'.compiler.locals =
                      Append(parser.compiler.locals,
                             LocalVar_new(name, parser.compiler.scope_depth))
                 /\ parser'.compiler.scope_depth = parser.compiler.scope_depth
                 /\ Len(parser'.decls) = Len(parser.decls) + 1
                 /\ parser'.decls[Len(parser'.decls)].at = Len(parser.compiler.locals)]_vars

\* a local shadows the local of the same name of the enclosing scope
C30_Shadowed ==
  /\ pc = "declare"
  /\ parse_result = OkR
  /\ parser.compiler.scope_depth = 2
  /\ parser.compiler.locals = <<LocalVar_new("a", 1), LocalVar_new("a", 2)>>

\* a second declaration of a name in one scope has failed
C30_Collided ==
  /\ pc = "declare"
  /\ parse_result = RuntimeErrorWithReason("Already a variable with this name in this scope")
  /\ parser.compiler.locals = <<LocalVar_new("a", 1), LocalVar_new("b", 1)>>

\* the indices (from 0) of the locals called name in a local table
LocalsNamed(locals, name) == {i \in 0..(Len(locals) - 1) : locals[i + 1].name = name}

\* the instruction a reference compiles to when it resolves to the local at index
RefersToLocal(ref, index) ==
  /\ chunk.code[ref.at + 1] = IF ref.assign THEN OpCode.SetLocal ELSE OpCode.GetLocal
  /\ chunk.code[ref.at + 2] = index

\* the instruction a reference compiles to when it resolves to a global
RefersToGlobal(ref) ==
  /\ chunk.code[ref.at + 1] = IF ref.assign THEN OpCode.SetGlobal ELSE OpCode.GetGlobal
  /\ chunk.code[ref.at + 2] < Len(chunk.strings)
  /\ chunk.strings[chunk.code[ref.at + 2] + 1] = ref.name

\* C31: a variable reference whose name is in the local table compiles to
\* GetLocal / SetLocal with the highest index of a local of that name; a
\* reference whose name no local has compiles to GetGlobal / SetGlobal with the
\* index of the name in the string pool.
C31_Resolution ==
  \A i \in 1..Len(parser.refs) :
    LET ref == parser.refs[i]
        named == LocalsNamed(ref.locals, ref.name)
    IN /\ ref.at + 2 <= Len(chunk.code)
       /\ IF named # {}
          THEN \E index \in named : (\A j \in named : j <= index) /\ RefersToLocal(ref, index)
          ELSE RefersToGlobal(ref)

\* a reference to a name that two locals have was compiled to the newer one
C31_ShadowResolved ==
  \E i \in 1..Len(parser.refs) :
    /\ Cardinality(LocalsNamed(parser.refs[i].locals, parser.refs[i].name)) > 1
    /\ IsOk(parse_result)
    /\ \E index \in LocalsNamed(parser.refs[i].locals, parser.refs[i].name) :
         RefersToLocal(parser.refs[i], index)

\* the number of operand bytes that follow an opcode
OperandBytes(code) ==
  IF code \in JumpCodes \cup {OpCode.Loop} THEN 2
  ELSE IF code \in {OpCode.Constant, OpCode.String, OpCode.DefineGlobal, OpCode.GetGlobal,
                    OpCode.SetGlobal, OpCode.GetLocal, OpCode.SetLocal} THEN 1
  ELSE 0

\* the operands of the String instructions of code from offset at, in order
RECURSIVE StringOperands(_, _)
StringOperands(code, at) ==
  IF at + 1 > Len(code) THEN <<>>
  ELSE (IF code[at + 1] = OpCode.String /\ at + 2 <= Len(code) THEN <<code[at + 2]>>
        ELSE <<>>)
       \o StringOperands(code, at + 1 + OperandBytes(code[at + 1]))

\* the texts between the quotes of the string literals the tokenizer yields, in order
RECURSIVE StringLiterals(_)
StringLiterals(tz) ==
  LET t == token(tz)
  IN IF t.tok = NoToken THEN <<>>
     ELSE (IF t.tok.kind = "String" THEN <<SubSeq(t.tok.source, 2, Len(t.tok.source) - 1)>>
           ELSE <<>>)
          \o StringLiterals(t.tz)

C33_IfWithoutElse ==
  (pc # "parse" /\ source \in IfOnlyPrograms) =>
    /\ IsOk(parse_result)
    /\ \E ifs \in 1..2 : /\ Len(parser.patches) = 2 * ifs
                         /\ Len(SelectSeq(chunk.code, LAMBDA byte : byte \in JumpCodes)) = 2 * ifs

\* programs of one `if`, `while` or `for` statement between the declarations of
\* global variables and a `return`: the statement begins on the empty stack
ControlPrograms ==
  {IfProgram(c.text) : c \in Conditions}
  \cup {WhileProgram(n) : n \in 0..MaxLoop}
  \cup {ForProgram(n) : n \in 0..MaxLoop}
  \cup {IfOnlyProgram(c, " return 2;") : c \in {"true", "false"}}

\* the address after the statement: the target of the jump patched last
ControlEnd == parser.patches[Len(parser.patches)].to

\* C34: when the run has executed the whole `if`, `while` or `for` statement,
\* whatever the number of iterations, the operand stack is as deep as it was
\* before the statement (empty): no tested condition value is left on it.
C34_ControlFlowKeepsDepth ==
  (pc = "run" /\ source \in ControlPrograms /\ vm.ip = ControlEnd) => vm.stack = <<>>

\* the instructions that check the types of their operands
TypeChecked ==
  {OpCode.Greater, OpCode.Less, OpCode.Add, OpCode.Subtract, OpCode.Multiply,
   OpCode.Divide, OpCode.Negate}

\* the runtime errors of a failed type check
TypeErrors ==
  {RuntimeErrorWithReason("Operands must be numbers"),
   RuntimeErrorWithReason("Negation works on numbers only")}

\* C35: when Greater, Less, Add, Subtract, Multiply, Divide or Negate ends the
\* run with the error of its operand type check, the stack, the globals and
\* the heap are as they were before the instruction.
C35_FailedCheckKeepsState ==
  [][(/\ pc = "run" /\ IsOk(Decoded.r) /\ Decoded.code \in TypeChecked
      /\ pc' = "ran" /\ run_result'.r \in TypeErrors)
       => /\ vm'.stack = vm.stack
          /\ vm'.globals = vm.globals
          /\ vm'.heap = vm.heap]_vars

\* Add has failed on a string and a value that is no string: both operands are
\* on the stack and the string is on the heap
C35_AddFailedOnString ==
  /\ pc = "ran"
  /\ op = OpCode.Add
  /\ run_result.r \in TypeErrors
  /\ Len(vm.stack) = 2
  /\ is_string(vm.stack[1]) /\ ~is_string(vm.stack[2])
  /\ Len(vm.heap) = 1

\* the scope depth is not negative, every local was declared at a depth
\* between 1 and the current one, and the depths do not decrease from the
\* oldest local to the newest
ScopesOrdered(c) ==
  /\ c.scope_depth >= 0
  /\ \A i \in DOMAIN c.locals : c.locals[i].scope_depth \in 1..c.scope_depth
  /\ \A i, j \in DOMAIN c.locals : i <= j => c.locals[i].scope_depth <= c.locals[j].scope_depth

\* C36: the Compiler the parser holds, and the one before and after each of
\* its end_scope calls, has its scopes ordered, and after a successful
\* Parser::parse the scope depth is 0 and the local table is empty.
C36_Scopes ==
  /\ ScopesOrdered(parser.compiler)
  /\ \A k \in DOMAIN parser.scopes :
       ScopesOrdered(parser.scopes[k].before) /\ ScopesOrdered(parser.scopes[k].after)
  /\ (pc \notin {"parse", "declare"} /\ source # "" /\ IsOk(parse_result)) =>
       parser.compiler = Compiler_new

\* the first part of C36 alone, for the callers of begin_scope, add_local_var
\* and end_scope in any order
C36_ScopesOrdered == ScopesOrdered(parser.compiler)

\* an instruction of code at or after offset at is Loop
RECURSIVE HasLoop(_, _)
HasLoop(code, at) ==
  /\ at + 1 <= Len(code)
  /\ \/ code[at + 1] = OpCode.Loop
     \/ HasLoop(code, at + 1 + OperandBytes(code[at + 1]))

\* ip is at or past the end of the code, or at a byte that is no opcode
NoOpcodeAt(ip) == read_byte(chunk, ip) = NoCode \/ ~OpCode_try_from(read_byte(chunk, ip))

\* the run of a chunk without a Loop instruction is under way
LoopFreeRun == pc = "run" /\ ~HasLoop(chunk.code, 0)

\* C37: the run of a chunk that holds no Loop instruction terminates.  Every
\* iteration of the loop of Vm::run leaves ip greater than it was; a fetch at
\* or past the end of the code, or of a byte that is no opcode, ends the run
\* with RuntimeError; and the run ends with the value that Return popped or
\* with an error result.
C37_LoopFreeRunEnds ==
  /\ [][LoopFreeRun => vm'.ip > vm.ip]_vars
  /\ [][(LoopFreeRun /\ NoOpcodeAt(vm.ip))
          => (pc' = "ran" /\ run_result'.r = RuntimeError)]_vars
  /\ LoopFreeRun ~> (/\ pc = "done"
                     /\ ~IsPanic(result.r)
                     /\ IsOk(result.r) => (op = OpCode.Return /\ result.value # NoValue))

\* the position after a token: its offset and the length of its slice
TokenEnd(tok) == tok.offset + Len(tok.source)

\* C38: every token that next() returns has a slice of at least one byte, the
\* bytes of the source from its offset on; it begins at or after the position
\* the tokenizer had reached and after the end of the token returned before
\* it, and ends at the position of the tokenizer, within the source; and a
\* tokenizer that has reached the end of the source returns no token.
C38_TokenRanges ==
  /\ [][(pc = "scan" /\ parser'.current # NoToken) =>
          /\ Len(parser'.current.source) > 0
          /\ TokenEnd(parser'.current) <= Len(source)
          /\ parser'.current.source
               = SubSeq(source, parser'.current.offset + 1, TokenEnd(parser'.current))
          /\ parser'.current.offset >= parser.tokenizer.current
          /\ parser'.tokenizer.current = TokenEnd(parser'.current)
          /\ parser.current # NoToken => parser'.current.offset >= TokenEnd(parser.current)]_vars
  /\ [][(pc = "scan" /\ parser.tokenizer.current >= Len(source))
          => parser'.current = NoToken]_vars

\* a token of two bytes returned after another token
C38_LaterToken ==
  /\ pc = "scan"
  /\ parser.current # NoToken
  /\ parser.current.offset > 0
  /\ Len(parser.current.source) = 2
  /\ TokenEnd(parser.current) < Len(source)

\* the instructions that peek at the top of the stack, and those that peek at
\* the two values on top
PeeksTop == {OpCode.JumpIfFalse, OpCode.JumpIfTrue, OpCode.SetLocal, OpCode.SetGlobal}

PeeksTwo ==
  {OpCode.Greater, OpCode.Less, OpCode.Add, OpCode.Subtract, OpCode.Multiply, OpCode.Divide}

\* C39: the Stack::peek(0) of JumpIfFalse, JumpIfTrue, SetLocal and SetGlobal
\* on the empty stack reports an absent value, so these instructions run on
\* the empty stack end the run with StackUnderflowError; and Greater, Less,
\* Add, Subtract, Multiply and Divide run on fewer than two values end it with
\* an error result.
C39_PeekUnderflow ==
  /\ []((pc = "run" /\ IsOk(Decoded.r) /\ Decoded.code \in PeeksTop /\ vm.stack = <<>>) =>
         Stack_peek(Decoded.vm.stack, 0, overflow_checks) = [r |-> OkR, value |-> NoValue])
  /\ [][(pc = "run" /\ IsOk(Decoded.r)) =>
          /\ (Decoded.code \in PeeksTop /\ vm.stack = <<>>) =>
               (pc' = "ran" /\ run_result' = [r |-> StackUnderflowError, value |-> NoValue])
          /\ (Decoded.code \in PeeksTwo /\ Len(vm.stack) < 2) =>
               (pc' = "ran" /\ ~IsOk(run_result'.r) /\ ~IsPanic(run_result'.r))]_vars
====
